---- MODULE Spec2Model ----
(***************************************************************************)
(* A model of the video-sharing entity graph of Video-Simulation-System:   *)
(* IdGen, Comment, Video, Channel, Playlist (video.cpp / video.h), User    *)
(* (user.cpp / user.h) and the menu loop of main.cpp.                      *)
(*                                                                         *)
(* Specifications                                                          *)
(*   Spec       Channel::upload and the comment operations of Video        *)
(*   SpecPlay   Channel::upload, Video::play, Video::pause                 *)
(*   SpecWatch  User::watch with Channel::upload and Video::pause          *)
(*   SpecSub    Channel::subscribe / unsubscribe, User::subscribeChannel   *)
(*   SpecComment  User::addComment / likeComment, on videos that may play  *)
(*   SpecPlaylist User::createPlaylist / getPlaylist, Playlist::add        *)
(*   SpecShow   Playlist::show on the playlist of one user                 *)
(*   SpecIdGen  several threads calling IdGen::next()                      *)
(*   SpecMain   the command loop of main(), from main()'s seeded state     *)
(*   SpecRegistry  the commands of main() that fill the registries         *)
(*   SpecSearch the search command of main(), with uploads                 *)
(*   SpecMenu   the commands of main() that require a login                *)
(*                                                                         *)
(* Not modelled: Comment::ts (a timestamp, never read), PerfTimer, Logger  *)
(* and every console output; they change no entity state.                  *)
(***************************************************************************)
EXTENDS Integers, Sequences, FiniteSets, TLC

VARIABLES
    counter,   \* IdGen::counter
    video,     \* id -> Video object (every Video that was constructed)
    chan,      \* channel name -> Channel object
    user,      \* username -> User object
    videos,    \* main(): the registry  unordered_map<long long, Video*>  (id -> id of the Video pointed to)
    current,   \* main(): User* current  (a username, or NoUser)
    last,      \* the OpResult (or pointer) returned by the last call, tagged with the call
    minted,    \* history: the ids IdGen handed out, in order, each with the kind of object that took it
    scen,      \* history: how many commands of Script the run consists of so far (-1: the run left the script)
    reg,       \* SpecIdGen: per thread, the value of the ++counter of the next() call it is in (0: in no call)
    got,       \* SpecIdGen: per thread, the values next() returned to it, in order
    shared,    \* the shared-ownership variant of the program, run on the command lines main() has read
    loop,      \* cin (the lines not yet read, the reads that failed) and whether the command loop runs
    perf       \* the global PERF_LOGGING

vars == <<counter, video, chan, user, videos, current, last, minted, scen, reg, got, shared, loop, perf>>

----------------------------------------------------------------------------
(* Bounds of the model                                                      *)

MaxId == 3          \* ids minted in one run (guards the minting actions)
MaxViews == 2       \* successful play() calls per video
MaxLikes == 1       \* likes per comment
MaxHist == 2        \* entries of one user's watch history
MaxWatchVideos == 2 \* SpecWatch, SpecPlaylist: videos uploaded
MaxMainId == 4      \* SpecMain: the greatest id minted (the default videos take 1..3)
MaxCalls == 3       \* SpecIdGen: next() calls per thread
NThreads == 2       \* SpecIdGen: number of threads
MaxAdds == 2        \* SpecPlaylist: Playlist::add calls in one run
MaxInput == 3       \* SpecLoop: lines of cin
MaxFailedReads == 2 \* SpecLoop: calls of getline at the end of cin
MaxBenchId == 104   \* SpecBench: the greatest id the benchmark mints
BenchComments == 100 \* the addComment calls of the benchmark

Usernames == {"alice", "bob"}
Titles == {"V1"}
Texts == {"hi"}
Durations == {100}
Threads == 1..NThreads

(* the Channel objects the core specifications start with: name -> owner *)
CoreChannels == ("C" :> "alice") @@ ("D" :> "bob")

----------------------------------------------------------------------------
(* OpStatus, OpResult                                                       *)

SUCCESS == "SUCCESS"
NOT_FOUND == "NOT_FOUND"
ALREADY_EXISTS == "ALREADY_EXISTS"
PERMISSION_DENIED == "PERMISSION_DENIED"
INVALID_INPUT == "INVALID_INPUT"
NOT_LOGGED_IN == "NOT_LOGGED_IN"

OpStatus == {SUCCESS, NOT_FOUND, ALREADY_EXISTS, PERMISSION_DENIED, INVALID_INPUT, NOT_LOGGED_IN}

NoId == -1          \* OpResult::id when the call gives none
NullVideo == 0      \* a Video* that is nullptr (ids start at 1)
NoUser == "<nullptr>"

(* OpResult(s, m, i); a message is the tuple of its parts *)
OpResult(s, m, i) == [status |-> s, message |-> m, id |-> i]

(* the value of `last`: the result r of the call named op with arguments args *)
Returned(op, args, r) ==
    [op |-> op, args |-> args, status |-> r.status, message |-> r.message, id |-> r.id]

(* what `last` holds after a call that returns no OpResult: the lines m it
   printed, or the value x it returned *)
NO_RESULT == "(no OpResult)"

Printed(m) == OpResult(NO_RESULT, m, NoId)

Value(x) == OpResult(NO_RESULT, x, NoId)

EmptyFcn == [x \in {} |-> x]

----------------------------------------------------------------------------
(* IdGen                                                                    *)

(* ++counter: the incremented value, which is both stored and returned *)
IdGenNextNoIncrement(c) == c
IdGenNext(c) == c + 1

Mint(kind) == minted' = Append(minted, [id |-> IdGenNext(counter), kind |-> kind])

----------------------------------------------------------------------------
(* Comment, Video: constructors and the pure part of each method           *)

NewComment(a, t, c) == [id |-> IdGenNext(c), author |-> a, text |-> t, likes |-> 0]

(* okPlays is a history field: the number of play() calls on this video that returned SUCCESS *)
NewVideo(t, u, d, c) ==
    [id |-> IdGenNext(c), title |-> t, uploader |-> u, durationSec |-> d,
     views |-> 0, playing |-> FALSE, comments |-> <<>>, okPlays |-> 0]

(* Video::play *)
PlayViewsBuggy(v) == v.views + 1
PlayViews(v) == IF ~v.playing THEN v.views + 1 ELSE v.views

PlayFlagBuggy(v) == ~v.playing
PlayFlag(v) == IF ~v.playing THEN TRUE ELSE v.playing

PlayResultStaleViews(v) ==
    IF ~v.playing
    THEN OpResult(SUCCESS, <<"Playing", v.title, v.views>>, NoId)
    ELSE OpResult(ALREADY_EXISTS, <<"Already playing", v.title>>, NoId)
PlayResultAlwaysSuccess(v) == OpResult(SUCCESS, <<"Playing", v.title, PlayViews(v)>>, NoId)
PlayResult(v) ==
    IF ~v.playing
    THEN OpResult(SUCCESS, <<"Playing", v.title, PlayViews(v)>>, NoId)
    ELSE OpResult(ALREADY_EXISTS, <<"Already playing", v.title>>, NoId)

PlayStateCountsRejected(v) ==
    [v EXCEPT !.playing = TRUE,
              !.views = @ + 1,
              !.okPlays = IF PlayResult(v).status = SUCCESS THEN @ + 1 ELSE @]
PlayState(v) ==
    [v EXCEPT !.playing = PlayFlag(v),
              !.views = PlayViews(v),
              !.okPlays = IF PlayResult(v).status = SUCCESS THEN @ + 1 ELSE @]

(* Video::pause *)
PauseResultNotLoggedIn(v) ==
    IF v.playing
    THEN OpResult(SUCCESS, <<"Paused", v.title>>, NoId)
    ELSE OpResult(NOT_LOGGED_IN, <<"Not playing", v.title>>, NoId)
PauseResult(v) ==
    IF v.playing
    THEN OpResult(SUCCESS, <<"Paused", v.title>>, NoId)
    ELSE OpResult(INVALID_INPUT, <<"Not playing", v.title>>, NoId)

PauseState(v) == IF v.playing THEN [v EXCEPT !.playing = FALSE] ELSE v

(* the linear search of likeComment / removeComment: the index of the first
   comment with id cid, 0 when there is none *)
RECURSIVE FindFrom(_, _, _)
FindFrom(cs, cid, i) ==
    IF i > Len(cs) THEN 0
    ELSE IF cs[i].id = cid THEN i
    ELSE FindFrom(cs, cid, i + 1)

FindComment(cs, cid) == FindFrom(cs, cid, 1)

(* vector::erase of the element at index i *)
ErasePopBack(cs, i) == SubSeq(cs, 1, Len(cs) - 1)
Erase(cs, i) == SubSeq(cs, 1, i - 1) \o SubSeq(cs, i + 1, Len(cs))

(* Video::addComment *)
AddCommentStatePrepend(v, a, t, c) == [v EXCEPT !.comments = <<NewComment(a, t, c)>> \o @]
AddCommentState(v, a, t, c) == [v EXCEPT !.comments = Append(@, NewComment(a, t, c))]

AddCommentResult(v, a, t, c) ==
    OpResult(SUCCESS, <<"Comment added by", a>>, AddCommentState(v, a, t, c).comments[Len(v.comments) + 1].id)

(* Video::likeComment *)
LikeCommentStateFirst(v, cid) ==
    LET i == FindComment(v.comments, cid)
    IN  IF i # 0 THEN [v EXCEPT !.comments[1].likes = @ + 1] ELSE v
LikeCommentStateTopFirst(v, cid) ==
    LET i == FindComment(v.comments, cid)
        liked == [v.comments[i] EXCEPT !.likes = @ + 1]
    IN  IF i # 0
        THEN [v EXCEPT !.comments = <<liked>> \o SubSeq(@, 1, i - 1) \o SubSeq(@, i + 1, Len(@))]
        ELSE v
LikeCommentState(v, cid) ==
    LET i == FindComment(v.comments, cid)
    IN  IF i # 0 THEN [v EXCEPT !.comments[i].likes = @ + 1] ELSE v

LikeCommentResult(v, cid) ==
    LET i == FindComment(v.comments, cid)
    IN  IF i # 0
        THEN OpResult(SUCCESS, <<"Liked comment", cid, LikeCommentState(v, cid).comments[i].likes>>, NoId)
        ELSE OpResult(NOT_FOUND, <<"Comment not found">>, NoId)

(* Video::removeComment *)
MayRemoveAuthorOnly(cm, requester, channelOwner) == requester = cm.author
MayRemove(cm, requester, channelOwner) == requester = cm.author \/ requester = channelOwner

RemoveCommentStateUnchecked(v, cid, requester, channelOwner) ==
    LET i == FindComment(v.comments, cid)
    IN  IF i # 0 THEN [v EXCEPT !.comments = Erase(@, i)] ELSE v
RemoveCommentStateSwapAndPop(v, cid, requester, channelOwner) ==
    LET i == FindComment(v.comments, cid)
    IN  IF i # 0 /\ MayRemove(v.comments[i], requester, channelOwner)
        THEN [v EXCEPT !.comments = SubSeq([@ EXCEPT ![i] = @[Len(@)]], 1, Len(@) - 1)]
        ELSE v
RemoveCommentState(v, cid, requester, channelOwner) ==
    LET i == FindComment(v.comments, cid)
    IN  IF i # 0 /\ MayRemove(v.comments[i], requester, channelOwner)
        THEN [v EXCEPT !.comments = Erase(@, i)]
        ELSE v

RemoveCommentResult(v, cid, requester, channelOwner) ==
    LET i == FindComment(v.comments, cid)
    IN  IF i # 0
        THEN IF MayRemove(v.comments[i], requester, channelOwner)
             THEN OpResult(SUCCESS, <<"Comment removed">>, NoId)
             ELSE OpResult(PERMISSION_DENIED, <<"Permission denied">>, NoId)
        ELSE OpResult(NOT_FOUND, <<"Comment not found">>, NoId)

----------------------------------------------------------------------------
(* Channel, User: constructors                                              *)

NewChannel(n, o) == [name |-> n, owner |-> o, uploads |-> <<>>, subscribers |-> {}]

(* created is a history field: the playlist names for which createPlaylist returned SUCCESS on this user *)
NewUser(n) ==
    [username |-> n, subscriptions |-> {}, historyIds |-> <<>>, playlists |-> EmptyFcn, created |-> {}]

(* Channel::upload: the Video it makes (uploader is the channel's name), and uploads.push_back *)
UploadVideo(ch, t, d, c) == NewVideo(t, ch.name, d, c)

UploadStatePrepend(ch, nv) == [ch EXCEPT !.uploads = <<nv.id>> \o @]
UploadState(ch, nv) == [ch EXCEPT !.uploads = Append(@, nv.id)]

(* Channel::subscribe *)
SubscribeStateNoInsert(ch, u) == ch
SubscribeState(ch, u) == [ch EXCEPT !.subscribers = @ \cup {u}]

SubscribeResultAlwaysSuccess(ch, u) == OpResult(SUCCESS, <<u, "subscribed to", ch.name>>, NoId)
SubscribeResult(ch, u) ==
    IF u \notin ch.subscribers
    THEN OpResult(SUCCESS, <<u, "subscribed to", ch.name>>, NoId)
    ELSE OpResult(ALREADY_EXISTS, <<u, "already subscribed">>, NoId)

(* Channel::unsubscribe *)
UnsubscribeStateClear(ch, u) == [ch EXCEPT !.subscribers = {}]
UnsubscribeState(ch, u) == [ch EXCEPT !.subscribers = @ \ {u}]

UnsubscribeResult(ch, u) ==
    IF u \in ch.subscribers
    THEN OpResult(SUCCESS, <<u, "unsubscribed from", ch.name>>, NoId)
    ELSE OpResult(NOT_FOUND, <<u, "was not subscribed">>, NoId)

(* User::subscribeChannel: subscriptions.insert(ch.getName()) *)
InsertSubscriptionForgotten(us, ch) == us
InsertSubscription(us, ch) == [us EXCEPT !.subscriptions = @ \cup {ch.name}]

(* User::watch: historyIds.push_back(v->getId()) *)
PushHistoryFront(us, v) == [us EXCEPT !.historyIds = <<v.id>> \o @]
PushHistory(us, v) == [us EXCEPT !.historyIds = Append(@, v.id)]

----------------------------------------------------------------------------
(* The shared-ownership variant (channels, playlists and histories hold     *)
(* shared_ptr<Video>; the operations print and return void).  A             *)
(* shared_ptr<Video> is the id of the Video it points to.  Its state is one  *)
(* record: counter, video, chan, user, videos (the registry), current.      *)

(* Video(t, u, d): id(IdGen::next()), views(0), playing(false) *)
SharedNewVideo(t, u, d, c) ==
    [id |-> c + 1, title |-> t, uploader |-> u, durationSec |-> d,
     views |-> 0, playing |-> FALSE, comments |-> <<>>]

(* void Video::play() *)
SharedPlay(v) == IF ~v.playing THEN [v EXCEPT !.playing = TRUE, !.views = @ + 1] ELSE v

(* void Video::pause() *)
SharedPause(v) == IF v.playing THEN [v EXCEPT !.playing = FALSE] ELSE v

(* void Video::addComment(user, text): comments.emplace_back(user, text) *)
SharedAddComment(v, a, t, c) ==
    [v EXCEPT !.comments = Append(@, [id |-> c + 1, author |-> a, text |-> t, likes |-> 0])]

(* bool Video::likeComment(cid): like() on the first comment of that id *)
SharedLikeComment(v, cid) ==
    LET i == FindComment(v.comments, cid)
    IN  IF i # 0 THEN [v EXCEPT !.comments[i].likes = @ + 1] ELSE v

(* Playlist::playAll from entry i on: pause() first if the video has views,
   then play(), then pause() *)
RECURSIVE SharedPlayAll(_, _, _)
SharedPlayAll(vs, vids, i) ==
    IF i > Len(vids) THEN vs
    ELSE LET v == vs[vids[i]]
             v1 == IF v.views > 0 THEN SharedPause(v) ELSE v
         IN  SharedPlayAll([vs EXCEPT ![vids[i]] = SharedPause(SharedPlay(v1))], vids, i + 1)

(* Channel::upload on channel cname and videos[v->getId()] = v *)
SharedUpload(s, cname, t, d) ==
    LET nv == SharedNewVideo(t, s.chan[cname].name, d, s.counter)
    IN  [s EXCEPT !.counter = nv.id,
                  !.video = @ @@ (nv.id :> nv),
                  !.chan[cname].uploads = Append(@, nv.id),
                  !.videos = [i \in DOMAIN @ \cup {nv.id} |-> IF i = nv.id THEN nv.id ELSE @[i]]]

(* main() before the command loop *)
SharedInit ==
    LET empty == [counter |-> 0, video |-> EmptyFcn,
                  chan |-> ("KavyaTech" :> [name |-> "KavyaTech", owner |-> "system",
                                            uploads |-> <<>>, subscribers |-> {}])
                           @@ ("IndieMusic" :> [name |-> "IndieMusic", owner |-> "system",
                                                uploads |-> <<>>, subscribers |-> {}]),
                  user |-> EmptyFcn, videos |-> EmptyFcn, current |-> NoUser]
        s1 == SharedUpload(empty, "KavyaTech", "C++ OOP Deep Dive", 900)
        s2 == SharedUpload(s1, "KavyaTech", "Data Structures Overview", 720)
    IN  SharedUpload(s2, "IndieMusic", "Chill Loops", 300)

(* command 1 *)
SharedCmd1(s, uname) ==
    IF uname = "" THEN s
    ELSE IF uname \in DOMAIN s.user THEN s
    ELSE [s EXCEPT !.user = @ @@ (uname :> [username |-> uname, subscriptions |-> {},
                                            history |-> <<>>, playlists |-> EmptyFcn])]

(* command 2 *)
SharedCmd2(s, uname) == IF uname \notin DOMAIN s.user THEN s ELSE [s EXCEPT !.current = uname]

(* command 3 *)
SharedCmd3(s) == IF s.current = NoUser THEN s ELSE [s EXCEPT !.current = NoUser]

(* command 4 *)
SharedCmd4(s, cname, desc) ==
    IF s.current = NoUser THEN s
    ELSE IF cname = "" THEN s
    ELSE IF cname \in DOMAIN s.chan THEN s
    ELSE [s EXCEPT !.chan = @ @@ (cname :> [name |-> cname, owner |-> s.user[s.current].username,
                                            uploads |-> <<>>, subscribers |-> {}])]

(* command 5 *)
SharedCmd5(s, cname, t, d) ==
    IF s.current = NoUser THEN s
    ELSE IF cname \notin DOMAIN s.chan THEN s
    ELSE IF s.chan[cname].owner # s.user[s.current].username THEN s
    ELSE SharedUpload(s, cname, t, d)

(* command 6: User::subscribeChannel, and Channel::subscribe inside it *)
SharedCmd6(s, cname) ==
    IF s.current = NoUser THEN s
    ELSE IF cname \notin DOMAIN s.chan THEN s
    ELSE IF s.chan[cname].name \notin s.user[s.current].subscriptions
    THEN [s EXCEPT !.user[s.current].subscriptions = @ \cup {s.chan[cname].name},
                   !.chan[cname].subscribers = @ \cup {s.user[s.current].username}]
    ELSE s

(* command 7: User::watch of the logged-in user, or play() with nobody logged in *)
SharedCmd7(s, vid) ==
    IF vid \notin DOMAIN s.videos THEN s
    ELSE IF s.current # NoUser
    THEN [s EXCEPT !.user[s.current].history = Append(@, s.videos[vid]),
                   !.video[s.videos[vid]] = SharedPlay(@)]
    ELSE [s EXCEPT !.video[s.videos[vid]] = SharedPlay(@)]

(* command 8 *)
SharedCmd8(s, vid, text) ==
    IF s.current = NoUser THEN s
    ELSE IF vid \notin DOMAIN s.videos THEN s
    ELSE [s EXCEPT !.video[s.videos[vid]] = SharedAddComment(@, s.user[s.current].username, text, s.counter),
                   !.counter = @ + 1]

(* command 9 *)
SharedCmd9(s, vid, cid) ==
    IF s.current = NoUser THEN s
    ELSE IF vid \notin DOMAIN s.videos THEN s
    ELSE [s EXCEPT !.video[s.videos[vid]] = SharedLikeComment(@, cid)]

(* command 12: User::createPlaylist *)
SharedCmd12(s, pname) ==
    IF s.current = NoUser THEN s
    ELSE IF pname \in DOMAIN s.user[s.current].playlists THEN s
    ELSE [s EXCEPT !.user[s.current].playlists = @ @@ (pname :> [name |-> pname, vids |-> <<>>])]

(* command 13: Playlist::add of the registry's pointer *)
SharedCmd13(s, pname, vid) ==
    IF s.current = NoUser THEN s
    ELSE IF pname \notin DOMAIN s.user[s.current].playlists THEN s
    ELSE IF vid \notin DOMAIN s.videos THEN s
    ELSE [s EXCEPT !.user[s.current].playlists[pname].vids = Append(@, s.videos[vid])]

(* command 14: show(), which changes nothing, then playAll() *)
SharedCmd14(s, pname) ==
    IF s.current = NoUser THEN s
    ELSE IF pname \notin DOMAIN s.user[s.current].playlists THEN s
    ELSE [s EXCEPT !.video = SharedPlayAll(@, s.user[s.current].playlists[pname].vids, 1)]

(* one turn of the command loop on the command cmd and the lines typed at its
   prompts; command 11 prints and changes nothing *)
SharedStep(s, cmd) ==
    CASE cmd[1] = "cmd1"  -> SharedCmd1(s, cmd[2])
      [] cmd[1] = "cmd2"  -> SharedCmd2(s, cmd[2])
      [] cmd[1] = "cmd3"  -> SharedCmd3(s)
      [] cmd[1] = "cmd4"  -> SharedCmd4(s, cmd[2], cmd[3])
      [] cmd[1] = "cmd5"  -> SharedCmd5(s, cmd[2], cmd[3], cmd[4])
      [] cmd[1] = "cmd6"  -> SharedCmd6(s, cmd[2])
      [] cmd[1] = "cmd7"  -> SharedCmd7(s, cmd[2])
      [] cmd[1] = "cmd8"  -> SharedCmd8(s, cmd[2], cmd[3])
      [] cmd[1] = "cmd9"  -> SharedCmd9(s, cmd[2], cmd[3])
      [] cmd[1] = "cmd12" -> SharedCmd12(s, cmd[2])
      [] cmd[1] = "cmd13" -> SharedCmd13(s, cmd[2], cmd[3])
      [] cmd[1] = "cmd14" -> SharedCmd14(s, cmd[2])
      [] OTHER -> s

----------------------------------------------------------------------------
(* The state the core specifications start in: the Channel and User objects
   constructed, no Video yet, IdGen::counter at its initial 0 *)

(* cin when the lines are drawn one by one and the stream itself is left out *)
NoInput == [input |-> <<>>, failed |-> 0, pc |-> "none"]

(* readLine: getline takes the next line of cin; at the end of cin it fails
   and readLine returns the empty string *)
NextLine(l) == IF l.input = <<>> THEN "" ELSE Head(l.input)

ReadLine(l) ==
    IF l.input = <<>>
    THEN [l EXCEPT !.failed = @ + 1]
    ELSE [l EXCEPT !.input = Tail(@)]

(* the command cmd has read its own line and, command 1 or 2, the username *)
Consume(l, cmd) ==
    IF l = NoInput THEN l
    ELSE IF cmd[1] \in {"cmd1", "cmd2"} THEN ReadLine(ReadLine(l))
    ELSE ReadLine(l)

InitCore ==
    /\ counter = 0
    /\ video = EmptyFcn
    /\ chan = [c \in DOMAIN CoreChannels |-> NewChannel(c, CoreChannels[c])]
    /\ user = [u \in Usernames |-> NewUser(u)]
    /\ videos = EmptyFcn
    /\ current = NoUser
    /\ last = Returned("none", <<>>, OpResult(SUCCESS, <<>>, NoId))
    /\ minted = <<>>
    /\ scen = -1
    /\ shared = SharedInit
    /\ loop = NoInput
    /\ perf = FALSE
    /\ reg = [t \in Threads |-> 0]
    /\ got = [t \in Threads |-> <<>>]

----------------------------------------------------------------------------
(* Core operations, each called directly on its object                      *)

(* Channel::upload(title, dur) on channel c; it returns no OpResult but a
   Video*, never null: last.id is the id of the Video pointed to *)
ChannelUpload(c, t, d) ==
    /\ counter < MaxId
    /\ LET nv == UploadVideo(chan[c], t, d, counter)
       IN  /\ video' = video @@ (nv.id :> nv)
           /\ chan' = [chan EXCEPT ![c] = UploadState(@, nv)]
           /\ last' = Returned("Channel::upload", <<c, t, d>>, OpResult(NO_RESULT, <<"Uploaded", t, c>>, nv.id))
    /\ counter' = IdGenNext(counter)
    /\ Mint("Video")
    /\ UNCHANGED <<user, videos, current, scen, reg, got, shared, loop, perf>>

(* Video::play() on video id *)
VideoPlay(id) ==
    /\ video[id].playing \/ video[id].views < MaxViews
    /\ video' = [video EXCEPT ![id] = PlayState(@)]
    /\ last' = Returned("Video::play", <<id>>, PlayResult(video[id]))
    /\ UNCHANGED <<counter, chan, user, videos, current, minted, scen, reg, got, shared, loop, perf>>

(* Video::pause() on video id *)
VideoPause(id) ==
    /\ video' = [video EXCEPT ![id] = PauseState(@)]
    /\ last' = Returned("Video::pause", <<id>>, PauseResult(video[id]))
    /\ UNCHANGED <<counter, chan, user, videos, current, minted, scen, reg, got, shared, loop, perf>>

(* Video::addComment(user, text) on video id *)
VideoAddComment(id, a, t) ==
    /\ counter < MaxId
    /\ video' = [video EXCEPT ![id] = AddCommentState(@, a, t, counter)]
    /\ last' = Returned("Video::addComment", <<id, a, t>>, AddCommentResult(video[id], a, t, counter))
    /\ counter' = IdGenNext(counter)
    /\ Mint("Comment")
    /\ UNCHANGED <<chan, user, videos, current, scen, reg, got, shared, loop, perf>>

(* Video::likeComment(cid) on video id *)
VideoLikeComment(id, cid) ==
    /\ LET i == FindComment(video[id].comments, cid)
       IN  i # 0 => video[id].comments[i].likes < MaxLikes
    /\ video' = [video EXCEPT ![id] = LikeCommentState(@, cid)]
    /\ last' = Returned("Video::likeComment", <<id, cid>>, LikeCommentResult(video[id], cid))
    /\ UNCHANGED <<counter, chan, user, videos, current, minted, scen, reg, got, shared, loop, perf>>

(* Video::removeComment(cid, requester, channelOwner) on video id *)
VideoRemoveComment(id, cid, requester, channelOwner) ==
    /\ video' = [video EXCEPT ![id] = RemoveCommentState(@, cid, requester, channelOwner)]
    /\ last' = Returned("Video::removeComment", <<id, cid, requester, channelOwner>>,
                      RemoveCommentResult(video[id], cid, requester, channelOwner))
    /\ UNCHANGED <<counter, chan, user, videos, current, minted, scen, reg, got, shared, loop, perf>>

(* the comment ids a caller may pass: every id that can be minted, and one that never is *)
CommentIds == 1..(MaxId + 1)

(* Spec: uploads and the comment operations *)
Next ==
    \/ \E c \in DOMAIN chan, t \in Titles, d \in Durations : ChannelUpload(c, t, d)
    \/ \E id \in DOMAIN video, a \in Usernames, t \in Texts : VideoAddComment(id, a, t)
    \/ \E id \in DOMAIN video, cid \in CommentIds : VideoLikeComment(id, cid)
    \/ \E id \in DOMAIN video, cid \in CommentIds, r \in Usernames, o \in Usernames :
           VideoRemoveComment(id, cid, r, o)

Spec == InitCore /\ [][Next]_vars

(* SpecPlay: uploads and playback *)
NextPlay ==
    \/ \E c \in DOMAIN chan, t \in Titles, d \in Durations : ChannelUpload(c, t, d)
    \/ \E id \in DOMAIN video : VideoPlay(id)
    \/ \E id \in DOMAIN video : VideoPause(id)

SpecPlay == InitCore /\ [][NextPlay]_vars

----------------------------------------------------------------------------
(* SpecSub: the subscription operations                                     *)

(* Channel::subscribe(u) on channel c *)
ChannelSubscribe(c, u) ==
    /\ chan' = [chan EXCEPT ![c] = SubscribeState(@, u)]
    /\ last' = Returned("Channel::subscribe", <<c, u>>, SubscribeResult(chan[c], u))
    /\ UNCHANGED <<counter, video, user, videos, current, minted, scen, reg, got, shared, loop, perf>>

(* Channel::unsubscribe(u) on channel c *)
ChannelUnsubscribe(c, u) ==
    /\ chan' = [chan EXCEPT ![c] = UnsubscribeState(@, u)]
    /\ last' = Returned("Channel::unsubscribe", <<c, u>>, UnsubscribeResult(chan[c], u))
    /\ UNCHANGED <<counter, video, user, videos, current, minted, scen, reg, got, shared, loop, perf>>

(* User::subscribeChannel(ch) on user u, ch the channel c *)
UserSubscribeChannelDelegating(u, c) ==
    /\ user' = [user EXCEPT ![u] = InsertSubscription(@, chan[c])]
    /\ chan' = [chan EXCEPT ![c] = SubscribeState(@, user[u].username)]
    /\ last' = Returned("User::subscribeChannel", <<u, c>>,
                        SubscribeResult(chan[c], user[u].username))
    /\ UNCHANGED <<counter, video, videos, current, minted, scen, reg, got, shared, loop, perf>>
UserSubscribeChannel(u, c) ==
    /\ IF chan[c].name \notin user[u].subscriptions
       THEN /\ user' = [user EXCEPT ![u] = InsertSubscription(@, chan[c])]
            /\ chan' = [chan EXCEPT ![c] = SubscribeState(@, user[u].username)]
            /\ last' = Returned("User::subscribeChannel", <<u, c>>,
                                SubscribeResult(chan[c], user[u].username))
       ELSE /\ last' = Returned("User::subscribeChannel", <<u, c>>,
                                OpResult(ALREADY_EXISTS, <<"Already subscribed">>, NoId))
            /\ UNCHANGED <<user, chan>>
    /\ UNCHANGED <<counter, video, videos, current, minted, scen, reg, got, shared, loop, perf>>

NextSub ==
    \/ \E c \in DOMAIN chan, u \in Usernames : ChannelSubscribe(c, u)
    \/ \E c \in DOMAIN chan, u \in Usernames : ChannelUnsubscribe(c, u)
    \/ \E u \in DOMAIN user, c \in DOMAIN chan : UserSubscribeChannel(u, c)

SpecSub == InitCore /\ [][NextSub]_vars

----------------------------------------------------------------------------
(* SpecWatch: User::watch on the videos uploaded so far, and on no video    *)

(* User::watch(v) on user u; id is the id of the Video v points to, NullVideo for nullptr *)
UserWatch(u, id) ==
    /\ IF id = NullVideo
       THEN /\ last' = Returned("User::watch", <<u, id>>, OpResult(NOT_FOUND, <<"Video not found">>, NoId))
            /\ UNCHANGED <<user, video>>
       ELSE /\ Len(user[u].historyIds) < MaxHist
            /\ video[id].playing \/ video[id].views < MaxViews
            /\ user' = [user EXCEPT ![u] = PushHistory(@, video[id])]
            /\ video' = [video EXCEPT ![id] = PlayState(@)]
            /\ last' = Returned("User::watch", <<u, id>>, PlayResult(video[id]))
    /\ UNCHANGED <<counter, chan, videos, current, minted, scen, reg, got, shared, loop, perf>>

(* the videos watched are uploads of one channel: watch reads no channel *)
NextWatch ==
    \/ \E c \in {"C"}, t \in Titles, d \in Durations :
           counter < MaxWatchVideos /\ ChannelUpload(c, t, d)
    \/ \E u \in DOMAIN user, id \in DOMAIN video \cup {NullVideo} : UserWatch(u, id)
    \/ \E id \in DOMAIN video : VideoPause(id)

SpecWatch == InitCore /\ [][NextWatch]_vars

----------------------------------------------------------------------------
(* SpecComment: commenting through a User, on videos that may be playing    *)

(* User::addComment(v, text) on user u; id as in UserWatch *)
UserAddComment(u, id, t) ==
    /\ IF id = NullVideo
       THEN /\ last' = Returned("User::addComment", <<u, id, t>>,
                                OpResult(NOT_FOUND, <<"Video not found">>, NoId))
            /\ UNCHANGED <<video, counter, minted>>
       ELSE /\ counter < MaxId
            /\ video' = [video EXCEPT ![id] = AddCommentState(@, user[u].username, t, counter)]
            /\ last' = Returned("User::addComment", <<u, id, t>>,
                                AddCommentResult(video[id], user[u].username, t, counter))
            /\ counter' = IdGenNext(counter)
            /\ Mint("Comment")
    /\ UNCHANGED <<chan, user, videos, current, scen, reg, got, shared, loop, perf>>

(* User::likeComment(v, cid) on user u *)
UserLikeComment(u, id, cid) ==
    /\ IF id = NullVideo
       THEN /\ last' = Returned("User::likeComment", <<u, id, cid>>,
                                OpResult(NOT_FOUND, <<"Video not found">>, NoId))
            /\ UNCHANGED video
       ELSE /\ LET i == FindComment(video[id].comments, cid)
               IN  i # 0 => video[id].comments[i].likes < MaxLikes
            /\ video' = [video EXCEPT ![id] = LikeCommentState(@, cid)]
            /\ last' = Returned("User::likeComment", <<u, id, cid>>, LikeCommentResult(video[id], cid))
    /\ UNCHANGED <<counter, chan, user, videos, current, minted, scen, reg, got, shared, loop, perf>>

NextComment ==
    \/ \E c \in {"C"}, t \in Titles, d \in Durations : ChannelUpload(c, t, d)
    \/ \E id \in DOMAIN video : VideoPlay(id)
    \/ \E id \in DOMAIN video, a \in Usernames, t \in Texts : VideoAddComment(id, a, t)
    \/ \E u \in DOMAIN user, id \in DOMAIN video \cup {NullVideo}, t \in Texts : UserAddComment(u, id, t)
    \/ \E u \in DOMAIN user, id \in DOMAIN video \cup {NullVideo}, cid \in CommentIds :
           UserLikeComment(u, id, cid)
    \/ \E id \in DOMAIN video, cid \in CommentIds, r \in Usernames :
           VideoRemoveComment(id, cid, r, CoreChannels["C"])

SpecComment == InitCore /\ [][NextComment]_vars

----------------------------------------------------------------------------
(* Playlist, and the playlists of a User                                    *)

NewPlaylist(n) == [name |-> n, videoIds |-> <<>>]

(* Playlist::add: videoIds.push_back(videoId) *)
PlaylistAddStateUnique(pl, videoId) ==
    IF \E i \in DOMAIN pl.videoIds : pl.videoIds[i] = videoId
    THEN pl
    ELSE [pl EXCEPT !.videoIds = Append(@, videoId)]
PlaylistAddState(pl, videoId) == [pl EXCEPT !.videoIds = Append(@, videoId)]

(* Playlist::show: the lines it writes for the entries i.. of the list; the
   line of entry i is its position, and the title and id of the Video that
   videoMap has for its id *)
RECURSIVE ShowFrom(_, _, _)
ShowFrom(pl, videoMap, i) ==
    IF i > Len(pl.videoIds) THEN <<>>
    ELSE (IF pl.videoIds[i] \in DOMAIN videoMap
          THEN << <<i, video[videoMap[pl.videoIds[i]]].title, video[videoMap[pl.videoIds[i]]].id>> >>
          ELSE <<>>)
         \o ShowFrom(pl, videoMap, i + 1)

(* Playlist::show: all the lines it writes *)
ShowEmptyIfNoneResolves(pl, videoMap) ==
    << <<"Playlist:", pl.name>> >> \o
    (IF ShowFrom(pl, videoMap, 1) = <<>> THEN << <<"(empty)">> >> ELSE ShowFrom(pl, videoMap, 1))
Show(pl, videoMap) ==
    << <<"Playlist:", pl.name>> >> \o
    (IF pl.videoIds = <<>> THEN << <<"(empty)">> >> ELSE ShowFrom(pl, videoMap, 1))

(* User::createPlaylist *)
CreatePlaylistStateOverwrite(us, pname) ==
    [us EXCEPT !.playlists = (pname :> NewPlaylist(pname)) @@ @]
CreatePlaylistState(us, pname) ==
    IF pname \in DOMAIN us.playlists
    THEN us
    ELSE [us EXCEPT !.playlists = @ @@ (pname :> NewPlaylist(pname))]

CreatePlaylistResult(us, pname) ==
    IF pname \in DOMAIN us.playlists
    THEN OpResult(ALREADY_EXISTS, <<"Playlist exists">>, NoId)
    ELSE OpResult(SUCCESS, <<"Created playlist", pname>>, NoId)

(* User::getPlaylist: a Playlist* is the pair of the user and the name that
   locate the Playlist object, NullPlaylist for nullptr *)
NullPlaylist == <<>>

GetPlaylistOfAnyName(us, pname) ==
    IF us.playlists # EmptyFcn THEN <<us.username, CHOOSE n \in DOMAIN us.playlists : TRUE>> ELSE NullPlaylist
GetPlaylist(us, pname) ==
    IF pname \in DOMAIN us.playlists THEN <<us.username, pname>> ELSE NullPlaylist

----------------------------------------------------------------------------
(* SpecPlaylist: the playlist operations of User and Playlist               *)

PlaylistNames == {"P", "Q"}

(* the ids a caller may add: those of the videos that can exist, and one that no video has *)
PlaylistVideoIds == 1..(MaxWatchVideos + 1)

(* the entries of all playlists: <<user, playlist name, index>> *)
PlaylistEntries ==
    UNION {UNION {{<<u, n, i>> : i \in DOMAIN user[u].playlists[n].videoIds} :
                  n \in DOMAIN user[u].playlists} : u \in DOMAIN user}

(* User::createPlaylist(pname) on user u *)
UserCreatePlaylist(u, pname) ==
    /\ user' = [user EXCEPT ![u] =
                   [CreatePlaylistState(@, pname) EXCEPT
                       !.created = IF CreatePlaylistResult(user[u], pname).status = SUCCESS
                                   THEN @ \cup {pname} ELSE @]]
    /\ last' = Returned("User::createPlaylist", <<u, pname>>, CreatePlaylistResult(user[u], pname))
    /\ UNCHANGED <<counter, video, chan, videos, current, minted, scen, reg, got, shared, loop, perf>>

(* User::getPlaylist(pname) on user u *)
UserGetPlaylist(u, pname) ==
    /\ last' = Returned("User::getPlaylist", <<u, pname>>, Value(GetPlaylist(user[u], pname)))
    /\ UNCHANGED <<counter, video, chan, user, videos, current, minted, scen, reg, got, shared, loop, perf>>

(* Playlist::add(videoId, title) on the Playlist that getPlaylist(pname) of user u points to *)
PlaylistAdd(u, pname, videoId) ==
    /\ GetPlaylist(user[u], pname) # NullPlaylist
    /\ Cardinality(PlaylistEntries) < MaxAdds
    /\ LET p == GetPlaylist(user[u], pname)
       IN  user' = [user EXCEPT ![p[1]].playlists[p[2]] = PlaylistAddState(@, videoId)]
    /\ last' = Returned("Playlist::add", <<u, pname, videoId>>, Value(<<>>))
    /\ UNCHANGED <<counter, video, chan, videos, current, minted, scen, reg, got, shared, loop, perf>>

(* Playlist::show(videoMap) on that Playlist; videoMap maps the ids in keys to their videos *)
PlaylistShow(u, pname, keys) ==
    /\ GetPlaylist(user[u], pname) # NullPlaylist
    /\ LET p == GetPlaylist(user[u], pname)
       IN  last' = Returned("Playlist::show", <<u, pname, keys>>,
                            Printed(Show(user[p[1]].playlists[p[2]], [k \in keys |-> k])))
    /\ UNCHANGED <<counter, video, chan, user, videos, current, minted, scen, reg, got, shared, loop, perf>>

NextPlaylist ==
    \/ \E c \in {"C"}, t \in Titles, d \in Durations :
           counter < MaxWatchVideos /\ ChannelUpload(c, t, d)
    \/ \E u \in DOMAIN user, pname \in PlaylistNames : UserCreatePlaylist(u, pname)
    \/ \E u \in DOMAIN user, pname \in PlaylistNames : UserGetPlaylist(u, pname)
    \/ \E u \in DOMAIN user, pname \in PlaylistNames, videoId \in PlaylistVideoIds :
           PlaylistAdd(u, pname, videoId)

SpecPlaylist == InitCore /\ [][NextPlaylist]_vars

(* SpecShow: Playlist::show on one playlist, with every videoMap over the videos uploaded *)
NextShow ==
    \/ \E c \in {"C"}, t \in Titles, d \in Durations :
           counter < MaxWatchVideos /\ ChannelUpload(c, t, d)
    \/ \E u \in {"alice"}, pname \in {"P"} : UserCreatePlaylist(u, pname)
    \/ \E u \in {"alice"}, pname \in {"P"}, videoId \in PlaylistVideoIds :
           PlaylistAdd(u, pname, videoId)
    \/ \E u \in {"alice"}, pname \in {"P"}, keys \in SUBSET DOMAIN video :
           PlaylistShow(u, pname, keys)

SpecShow == InitCore /\ [][NextShow]_vars

----------------------------------------------------------------------------
(* SpecTotal: every core operation of the claim about totality, on one
   video of channel "C" with one comment at a time, user alice and playlist
   "P", with absent videos, comments and playlists among the arguments *)
NextTotal ==
    \/ \E t \in Titles, d \in Durations : DOMAIN video = {} /\ ChannelUpload("C", t, d)
    \/ \E id \in DOMAIN video : VideoPlay(id)
    \/ \E id \in DOMAIN video : VideoPause(id)
    \/ \E id \in DOMAIN video, t \in Texts :
           video[id].comments = <<>> /\ VideoAddComment(id, "alice", t)
    \/ \E id \in DOMAIN video, cid \in CommentIds : VideoLikeComment(id, cid)
    \/ \E id \in DOMAIN video, cid \in CommentIds, r \in Usernames :
           VideoRemoveComment(id, cid, r, CoreChannels["C"])
    \/ ChannelSubscribe("C", "alice")
    \/ ChannelUnsubscribe("C", "alice")
    \/ UserSubscribeChannel("alice", "C")
    \/ \E id \in DOMAIN video \cup {NullVideo} : UserWatch("alice", id)
    \/ UserCreatePlaylist("alice", "P")
    \/ \E pname \in PlaylistNames : UserGetPlaylist("alice", pname)
    \/ PlaylistAdd("alice", "P", 1)

SpecTotal == InitCore /\ [][NextTotal]_vars

----------------------------------------------------------------------------
(* SpecIdGen: threads calling IdGen::next() concurrently.  counter is a
   std::atomic<long long>, so ++counter is one atomic read-modify-write; the
   value it produced is handed back to the caller in a later step. *)

LastGot(t) == IF got[t] = <<>> THEN 0 ELSE got[t][Len(got[t])]

(* the value ++counter produces for thread t *)
StalePreIncrement(t) == LastGot(t) + 1
AtomicPreIncrement(t) == IdGenNext(counter)

(* thread t enters next() and executes ++counter *)
ThreadIncrement(t) ==
    /\ reg[t] = 0
    /\ Len(got[t]) < MaxCalls
    /\ counter' = AtomicPreIncrement(t)
    /\ reg' = [reg EXCEPT ![t] = AtomicPreIncrement(t)]
    /\ last' = Returned("IdGen::next:increment", <<t>>, OpResult(SUCCESS, <<>>, NoId))
    /\ UNCHANGED <<video, chan, user, videos, current, minted, scen, got, shared, loop, perf>>

(* next() returns that value to thread t *)
ThreadReturn(t) ==
    /\ reg[t] # 0
    /\ got' = [got EXCEPT ![t] = Append(@, reg[t])]
    /\ reg' = [reg EXCEPT ![t] = 0]
    /\ last' = Returned("IdGen::next", <<t>>, OpResult(SUCCESS, <<>>, reg[t]))
    /\ UNCHANGED <<counter, video, chan, user, videos, current, minted, scen, shared, loop, perf>>

NextIdGen ==
    \/ \E t \in Threads : ThreadIncrement(t)
    \/ \E t \in Threads : ThreadReturn(t)

SpecIdGen == InitCore /\ [][NextIdGen]_vars

----------------------------------------------------------------------------
(* SpecMain: the command loop of main(), one action per menu command.  What
   a command prints that is no OpResult is recorded with Printed. *)

(* the scenario of a run from the program's start: register alice, log in as
   alice, create channel C, upload V1 (100 s) to it, watch the video that
   upload returned, watch it again *)
Script ==
    << <<"cmd1", "alice">>, <<"cmd2", "alice">>, <<"cmd4", "C", "d">>,
       <<"cmd5", "C", "V1", 100>>, <<"cmd7", "the upload">>, <<"cmd7", "the upload">> >>

(* the video the scenario's upload returned, read from the previous command *)
ScriptVideo == IF last.op = "cmd5" THEN last.id ELSE last.args[1]

Matches(k, cmd) ==
    IF Script[k] = <<"cmd7", "the upload">>
    THEN cmd = <<"cmd7", ScriptVideo>>
    ELSE cmd = Script[k]

(* the command cmd is executed: the run is still the scenario if it was and
   cmd is its next command; the shared-ownership variant executes it too *)
Track(cmd) ==
    /\ loop' = Consume(loop, cmd)
    /\ scen' = IF scen >= 0 /\ scen < Len(Script) /\ Matches(scen + 1, cmd) THEN scen + 1 ELSE -1
    /\ shared' = SharedStep(shared, cmd)

(* lines typed at a name prompt ("" is the empty line), and at the other prompts *)
MainUsernames == {"alice", "bob", ""}
MainChannelNames == {"C", "KavyaTech", ""}
Descriptions == {"d"}

(* main(): the registries, the two default channels with their three videos, nobody logged in *)
InitEntities ==
    LET k == NewChannel("KavyaTech", "system")
        m == NewChannel("IndieMusic", "system")
        v1 == UploadVideo(k, "C++ OOP Deep Dive", 900, 0)
        v2 == UploadVideo(k, "Data Structures Overview", 720, v1.id)
        v3 == UploadVideo(m, "Chill Loops", 300, v2.id)
    IN  /\ counter = v3.id
        /\ video = (v1.id :> v1) @@ (v2.id :> v2) @@ (v3.id :> v3)
        /\ chan = ("KavyaTech" :> UploadState(UploadState(k, v1), v2)) @@ ("IndieMusic" :> UploadState(m, v3))
        /\ user = EmptyFcn
        /\ videos = (v1.id :> v1.id) @@ (v2.id :> v2.id) @@ (v3.id :> v3.id)
        /\ current = NoUser
        /\ last = Returned("none", <<>>, OpResult(SUCCESS, <<>>, NoId))
        /\ minted = << [id |-> v1.id, kind |-> "Video"], [id |-> v2.id, kind |-> "Video"],
                       [id |-> v3.id, kind |-> "Video"] >>
        /\ scen = 0
        /\ shared = SharedInit
        /\ perf = FALSE
        /\ reg = [t \in Threads |-> 0]
        /\ got = [t \in Threads |-> <<>>]

(* the lines of cin are drawn one by one as the commands read them *)
InitMain == InitEntities /\ loop = NoInput

(* if (!current) at the head of command cmd *)
LoginRequiredButForLike(cur, cmd) == cur = NoUser /\ cmd # "cmd9"
LoginRequired(cur, cmd) == cur = NoUser

(* users.find(uname) != users.end() *)
IsRegisteredNever(users, uname) == FALSE
IsRegistered(users, uname) == uname \in DOMAIN users

(* channels.find(cname) != channels.end() *)
ChannelExistsNever(channels, cname) == FALSE
ChannelExists(channels, cname) == cname \in DOMAIN channels

(* command 1: register *)
Cmd1Register(uname) ==
    /\ IF uname = ""
       THEN /\ last' = Returned("cmd1", <<uname>>, Printed(<<"Empty name">>))
            /\ UNCHANGED user
       ELSE IF IsRegistered(user, uname)
       THEN /\ last' = Returned("cmd1", <<uname>>, Printed(<<"User exists">>))
            /\ UNCHANGED user
       ELSE /\ user' = user @@ (uname :> NewUser(uname))
            /\ last' = Returned("cmd1", <<uname>>, Printed(<<"Registered user:", uname>>))
    /\ Track(<<"cmd1", uname>>)
    /\ UNCHANGED <<counter, video, chan, videos, current, minted, reg, got, perf>>

(* command 2: login *)
Cmd2LoginClearing(uname) ==
    /\ IF uname \notin DOMAIN user
       THEN /\ last' = Returned("cmd2", <<uname>>, Printed(<<"No such user. Register first.">>))
            /\ current' = NoUser
       ELSE /\ current' = uname
            /\ last' = Returned("cmd2", <<uname>>, Printed(<<"Logged in as", user[uname].username>>))
    /\ Track(<<"cmd2", uname>>)
    /\ UNCHANGED <<counter, video, chan, user, videos, minted, reg, got, perf>>
Cmd2Login(uname) ==
    /\ IF uname \notin DOMAIN user
       THEN /\ last' = Returned("cmd2", <<uname>>, Printed(<<"No such user. Register first.">>))
            /\ UNCHANGED current
       ELSE /\ current' = uname
            /\ last' = Returned("cmd2", <<uname>>, Printed(<<"Logged in as", user[uname].username>>))
    /\ Track(<<"cmd2", uname>>)
    /\ UNCHANGED <<counter, video, chan, user, videos, minted, reg, got, perf>>

(* command 3: logout *)
Cmd3Logout ==
    /\ IF current = NoUser
       THEN /\ last' = Returned("cmd3", <<>>, Printed(<<"Not logged in">>))
            /\ UNCHANGED current
       ELSE /\ last' = Returned("cmd3", <<>>, Printed(<<"Logged out", user[current].username>>))
            /\ current' = NoUser
    /\ Track(<<"cmd3">>)
    /\ UNCHANGED <<counter, video, chan, user, videos, minted, reg, got, perf>>

(* command 4: create a channel *)
Cmd4CreateChannel(cname, desc) ==
    /\ IF LoginRequired(current, "cmd4")
       THEN /\ last' = Returned("cmd4", <<>>, Printed(<<"Login required">>))
            /\ UNCHANGED chan
       ELSE IF cname = ""
       THEN /\ last' = Returned("cmd4", <<cname>>, Printed(<<"Empty name">>))
            /\ UNCHANGED chan
       ELSE IF ChannelExists(chan, cname)
       THEN /\ last' = Returned("cmd4", <<cname>>, Printed(<<"Channel exists">>))
            /\ UNCHANGED chan
       ELSE /\ chan' = chan @@ (cname :> NewChannel(cname, user[current].username))
            /\ last' = Returned("cmd4", <<cname, desc>>, Printed(<<"Channel created", cname>>))
    /\ Track(<<"cmd4", cname, desc>>)
    /\ UNCHANGED <<counter, video, user, videos, current, minted, reg, got, perf>>

(* videos[v->getId()] = v: the registry maps the id to the Video, which is
   the element of `video` with that key *)
RegisterVideoForgotten(vs, nv) == vs
RegisterVideo(vs, nv) == [i \in DOMAIN vs \cup {nv.id} |-> IF i = nv.id THEN nv.id ELSE vs[i]]

(* command 5's test: cit->second.getOwner() == current->getUsername() *)
OwnsChannelAlways(ch, us) == TRUE
OwnsChannel(ch, us) == ch.owner = us.username

(* command 5: upload a video to a channel of the logged-in user *)
Cmd5Upload(cname, t, d) ==
    /\ IF LoginRequired(current, "cmd5")
       THEN /\ last' = Returned("cmd5", <<>>, Printed(<<"Login required">>))
            /\ UNCHANGED <<counter, video, chan, videos, minted>>
       ELSE IF cname \notin DOMAIN chan
       THEN /\ last' = Returned("cmd5", <<cname>>, Printed(<<"Channel not found">>))
            /\ UNCHANGED <<counter, video, chan, videos, minted>>
       ELSE IF ~OwnsChannel(chan[cname], user[current])
       THEN /\ last' = Returned("cmd5", <<cname>>, Printed(<<"You do not own this channel">>))
            /\ UNCHANGED <<counter, video, chan, videos, minted>>
       ELSE /\ counter < MaxMainId
            /\ LET nv == UploadVideo(chan[cname], t, d, counter)
               IN  /\ video' = video @@ (nv.id :> nv)
                   /\ chan' = [chan EXCEPT ![cname] = UploadState(@, nv)]
                   /\ videos' = RegisterVideo(videos, nv)
                   /\ last' = Returned("cmd5", <<cname, t, d>>,
                                       OpResult(NO_RESULT, <<"Uploaded", t, nv.id, cname>>, nv.id))
            /\ counter' = IdGenNext(counter)
            /\ Mint("Video")
    /\ Track(<<"cmd5", cname, t, d>>)
    /\ UNCHANGED <<user, current, reg, got, perf>>

(* command 7: watch a video by id; with nobody logged in, Video::play() directly *)
Cmd7Watch(vid) ==
    /\ IF vid \notin DOMAIN videos
       THEN /\ last' = Returned("cmd7", <<vid>>, Printed(<<"Video not found">>))
            /\ UNCHANGED <<user, video>>
       ELSE IF current # NoUser
       THEN /\ Len(user[current].historyIds) < MaxHist
            /\ user' = [user EXCEPT ![current] = PushHistory(@, video[videos[vid]])]
            /\ video' = [video EXCEPT ![videos[vid]] = PlayState(@)]
            /\ last' = Returned("cmd7", <<vid>>, PlayResult(video[videos[vid]]))
       ELSE /\ video' = [video EXCEPT ![videos[vid]] = PlayState(@)]
            /\ last' = Returned("cmd7", <<vid>>, PlayResult(video[videos[vid]]))
            /\ UNCHANGED user
    /\ Track(<<"cmd7", vid>>)
    /\ UNCHANGED <<counter, chan, videos, current, minted, reg, got, perf>>

(* the number of videos main() uploads before the command loop *)
DefaultVideos == 3

(* ids typed at the watch prompt: -1, which is what readLongLong gives for an
   empty line, the first default video, and the ids that uploads can get *)
WatchIds == {NoId, 1} \cup {i \in 1..MaxMainId : i > DefaultVideos}

NextMain ==
    \/ \E uname \in MainUsernames : Cmd1Register(uname)
    \/ \E uname \in MainUsernames : Cmd2Login(uname)
    \/ Cmd3Logout
    \/ \E cname \in MainChannelNames, desc \in Descriptions : Cmd4CreateChannel(cname, desc)
    \/ \E cname \in MainChannelNames, t \in Titles, d \in Durations : Cmd5Upload(cname, t, d)
    \/ \E vid \in WatchIds : Cmd7Watch(vid)

SpecMain == InitMain /\ [][NextMain]_vars

----------------------------------------------------------------------------
(* SpecSearch: search by title (command 11).  A std::string is the sequence
   of its characters; the characters are ASCII, on which ::tolower is
   defined. *)

UpperCase ==
    <<"A", "B", "C", "D", "E", "F", "G", "H", "I", "J", "K", "L", "M", "N", "O", "P", "Q", "R", "S", "T", "U", "V", "W", "X", "Y", "Z">>
LowerCase ==
    <<"a", "b", "c", "d", "e", "f", "g", "h", "i", "j", "k", "l", "m", "n", "o", "p", "q", "r", "s", "t", "u", "v", "w", "x", "y", "z">>

(* ::tolower in the "C" locale *)
ToLowerIdentity(ch) == ch
ToLower(ch) ==
    IF \E i \in DOMAIN UpperCase : UpperCase[i] = ch
    THEN LowerCase[CHOOSE i \in DOMAIN UpperCase : UpperCase[i] = ch]
    ELSE ch

(* transform(s.begin(), s.end(), s.begin(), ::tolower) *)
Lowered(str) == [i \in DOMAIN str |-> ToLower(str[i])]

Npos == -1          \* string::npos

(* hay.find(needle): the first position (from 0) at or after pos where needle occurs, else npos *)
RECURSIVE FindIn(_, _, _)
FindIn(hay, needle, pos) ==
    IF pos + Len(needle) > Len(hay) THEN Npos
    ELSE IF SubSeq(hay, pos + 1, pos + Len(needle)) = needle THEN pos
    ELSE FindIn(hay, needle, pos + 1)

(* the characters of the titles that videos have *)
Chars ==
    ("C++ OOP Deep Dive" :> <<"C", "+", "+", " ", "O", "O", "P", " ", "D", "e", "e", "p", " ", "D", "i", "v", "e">>) @@
    ("Data Structures Overview" :> <<"D", "a", "t", "a", " ", "S", "t", "r", "u", "c", "t", "u", "r", "e", "s", " ", "O", "v", "e", "r", "v", "i", "e", "w">>) @@
    ("Chill Loops" :> <<"C", "h", "i", "l", "l", " ", "L", "o", "o", "p", "s">>) @@
    ("V1" :> <<"V", "1">>)

(* lines typed at the search prompt *)
Queries ==
    {<<>>,
     <<"c", "+", "+">>,
     <<"C", "+", "+">>,
     <<"c", "h">>,
     <<"o", "o", "p">>,
     <<"v", "1">>,
     <<"x">>}

(* the registry entries the loop of command 11 prints for the query q *)
SearchMatches(q) ==
    {k \in DOMAIN videos : FindIn(Lowered(Chars[video[videos[k]].title]), Lowered(q), 0) # Npos}

(* the orders in which an unordered_map may hand the entries of the set S to the loop *)
Orders(S) ==
    {ord \in [1..Cardinality(S) -> S] : \A i, j \in 1..Cardinality(S) : i # j => ord[i] # ord[j]}

(* command 11: search; one line per matching entry: key, title, uploader *)
Cmd11Search(q) ==
    /\ \E ord \in Orders(SearchMatches(q)) :
           last' = Returned("cmd11", <<q>>,
                            Printed([i \in DOMAIN ord |->
                                        <<ord[i], video[videos[ord[i]]].title, video[videos[ord[i]]].uploader>>]))
    /\ Track(<<"cmd11", q>>)
    /\ UNCHANGED <<counter, video, chan, user, videos, current, minted, reg, got, perf>>

NextSearch ==
    \/ \E uname \in Usernames : Cmd1Register(uname)
    \/ \E uname \in Usernames : Cmd2Login(uname)
    \/ \E cname \in {"C"}, desc \in Descriptions : Cmd4CreateChannel(cname, desc)
    \/ \E cname \in {"C"}, t \in Titles, d \in Durations : Cmd5Upload(cname, t, d)
    \/ \E q \in Queries : Cmd11Search(q)

SpecSearch == InitMain /\ [][NextSearch]_vars

----------------------------------------------------------------------------
(* SpecRegistry: the commands that fill the user and channel registries and
   the User objects: register, login, create channel, subscribe, watch the
   first default video, create playlist *)

(* command 6: subscribe the logged-in user to a channel *)
Cmd6Subscribe(cname) ==
    /\ IF LoginRequired(current, "cmd6")
       THEN /\ last' = Returned("cmd6", <<>>, Printed(<<"Login required">>))
            /\ UNCHANGED <<user, chan>>
       ELSE IF cname \notin DOMAIN chan
       THEN /\ last' = Returned("cmd6", <<cname>>, Printed(<<"Channel not found">>))
            /\ UNCHANGED <<user, chan>>
       ELSE IF chan[cname].name \notin user[current].subscriptions
       THEN /\ user' = [user EXCEPT ![current] = InsertSubscription(@, chan[cname])]
            /\ chan' = [chan EXCEPT ![cname] = SubscribeState(@, user[current].username)]
            /\ last' = Returned("cmd6", <<cname>>, SubscribeResult(chan[cname], user[current].username))
       ELSE /\ last' = Returned("cmd6", <<cname>>, OpResult(ALREADY_EXISTS, <<"Already subscribed">>, NoId))
            /\ UNCHANGED <<user, chan>>
    /\ Track(<<"cmd6", cname>>)
    /\ UNCHANGED <<counter, video, videos, current, minted, reg, got, perf>>

(* command 12: create a playlist of the logged-in user *)
Cmd12CreatePlaylist(pname) ==
    /\ IF LoginRequired(current, "cmd12")
       THEN /\ last' = Returned("cmd12", <<>>, Printed(<<"Login required">>))
            /\ UNCHANGED user
       ELSE /\ user' = [user EXCEPT ![current] =
                           [CreatePlaylistState(@, pname) EXCEPT
                               !.created = IF CreatePlaylistResult(user[current], pname).status = SUCCESS
                                           THEN @ \cup {pname} ELSE @]]
            /\ last' = Returned("cmd12", <<pname>>, CreatePlaylistResult(user[current], pname))
    /\ Track(<<"cmd12", pname>>)
    /\ UNCHANGED <<counter, video, chan, videos, current, minted, reg, got, perf>>

NextRegistry ==
    \/ \E uname \in MainUsernames : Cmd1Register(uname)
    \/ \E uname \in MainUsernames : Cmd2Login(uname)
    \/ \E cname \in MainChannelNames, desc \in Descriptions : Cmd4CreateChannel(cname, desc)
    \/ \E cname \in MainChannelNames : Cmd6Subscribe(cname)
    \/ \E vid \in {1} : Cmd7Watch(vid)
    \/ \E pname \in {"P"} : Cmd12CreatePlaylist(pname)

SpecRegistry == InitMain /\ [][NextRegistry]_vars

----------------------------------------------------------------------------
(* SpecMenu: the commands of main() that require a login, with register,
   login and logout *)

(* command 8: add a comment as the logged-in user *)
Cmd8AddComment(vid, text) ==
    /\ IF LoginRequired(current, "cmd8")
       THEN /\ last' = Returned("cmd8", <<>>, Printed(<<"Login required">>))
            /\ UNCHANGED <<video, counter, minted>>
       ELSE IF vid \notin DOMAIN videos
       THEN /\ last' = Returned("cmd8", <<vid>>, Printed(<<"Video not found">>))
            /\ UNCHANGED <<video, counter, minted>>
       ELSE /\ counter < MaxMainId
            /\ video' = [video EXCEPT ![videos[vid]] = AddCommentState(@, user[current].username, text, counter)]
            /\ last' = Returned("cmd8", <<vid, text>>,
                                AddCommentResult(video[videos[vid]], user[current].username, text, counter))
            /\ counter' = IdGenNext(counter)
            /\ Mint("Comment")
    /\ Track(<<"cmd8", vid, text>>)
    /\ UNCHANGED <<chan, user, videos, current, reg, got, perf>>

(* command 9: like a comment *)
Cmd9LikeComment(vid, cid) ==
    /\ IF LoginRequired(current, "cmd9")
       THEN /\ last' = Returned("cmd9", <<>>, Printed(<<"Login required">>))
            /\ UNCHANGED video
       ELSE IF vid \notin DOMAIN videos
       THEN /\ last' = Returned("cmd9", <<vid>>, Printed(<<"Video not found">>))
            /\ UNCHANGED video
       ELSE /\ LET i == FindComment(video[videos[vid]].comments, cid)
               IN  i # 0 => video[videos[vid]].comments[i].likes < MaxLikes
            /\ video' = [video EXCEPT ![videos[vid]] = LikeCommentState(@, cid)]
            /\ last' = Returned("cmd9", <<vid, cid>>, LikeCommentResult(video[videos[vid]], cid))
    /\ Track(<<"cmd9", vid, cid>>)
    /\ UNCHANGED <<counter, chan, user, videos, current, minted, reg, got, perf>>

(* command 13's lookup: videos.find(vid) != videos.end() *)
AddableAlways(vs, vid) == TRUE
Addable(vs, vid) == vid \in DOMAIN vs

(* command 13: add a registered video to a playlist of the logged-in user *)
Cmd13AddToPlaylist(pname, vid) ==
    /\ IF LoginRequired(current, "cmd13")
       THEN /\ last' = Returned("cmd13", <<>>, Printed(<<"Login required">>))
            /\ UNCHANGED user
       ELSE IF GetPlaylist(user[current], pname) = NullPlaylist
       THEN /\ last' = Returned("cmd13", <<pname>>, Printed(<<"Playlist not found">>))
            /\ UNCHANGED user
       ELSE IF ~Addable(videos, vid)
       THEN /\ last' = Returned("cmd13", <<pname, vid>>, Printed(<<"Video not found">>))
            /\ UNCHANGED user
       ELSE /\ Cardinality(PlaylistEntries) < MaxAdds
            /\ LET p == GetPlaylist(user[current], pname)
               IN  user' = [user EXCEPT ![p[1]].playlists[p[2]] = PlaylistAddState(@, vid)]
            /\ last' = Returned("cmd13", <<pname, vid>>, Value(<<>>))
    /\ Track(<<"cmd13", pname, vid>>)
    /\ UNCHANGED <<counter, video, chan, videos, current, minted, reg, got, perf>>

(* the loop of command 14 from entry i on: play() then pause() on every entry
   that the registry resolves; vs is the videos as the loop has left them *)
PlayEntriesFirstOnly(vs, ids, i) ==
    IF i > Len(ids) \/ ids[i] \notin DOMAIN videos THEN vs
    ELSE [vs EXCEPT ![videos[ids[i]]] = PauseState(PlayState(@))]
RECURSIVE PlayEntries(_, _, _)
PlayEntries(vs, ids, i) ==
    IF i > Len(ids) THEN vs
    ELSE IF ids[i] \in DOMAIN videos
         THEN PlayEntries([vs EXCEPT ![videos[ids[i]]] = PauseState(PlayState(@))], ids, i + 1)
         ELSE PlayEntries(vs, ids, i + 1)

(* command 14: show, then play, a playlist of the logged-in user *)
Cmd14PlayPlaylist(pname) ==
    /\ IF LoginRequired(current, "cmd14")
       THEN /\ last' = Returned("cmd14", <<>>, Printed(<<"Login required">>))
            /\ UNCHANGED video
       ELSE IF GetPlaylist(user[current], pname) = NullPlaylist
       THEN /\ last' = Returned("cmd14", <<pname>>, Printed(<<"Playlist not found">>))
            /\ UNCHANGED video
       ELSE LET p == GetPlaylist(user[current], pname)
                pl == user[p[1]].playlists[p[2]]
            IN  /\ \A id \in DOMAIN video : PlayEntries(video, pl.videoIds, 1)[id].views <= MaxViews
                /\ video' = PlayEntries(video, pl.videoIds, 1)
                /\ last' = Returned("cmd14", <<pname>>,
                                    Printed(Show(pl, videos) \o << <<"Playing playlist", pname>> >>))
    /\ Track(<<"cmd14", pname>>)
    /\ UNCHANGED <<counter, chan, user, videos, current, minted, reg, got, perf>>

(* the ids typed for a comment: those a comment can have, one more than the default videos on *)
MenuCommentIds == {i \in 1..MaxMainId : i > DefaultVideos}

NextMenu ==
    \/ \E uname \in {"alice"} : Cmd1Register(uname)
    \/ \E uname \in {"alice"} : Cmd2Login(uname)
    \/ Cmd3Logout
    \/ \E cname \in {"C"}, desc \in Descriptions : Cmd4CreateChannel(cname, desc)
    \/ \E cname \in {"C"}, t \in Titles, d \in Durations : Cmd5Upload(cname, t, d)
    \/ \E cname \in {"KavyaTech", "C"} : Cmd6Subscribe(cname)
    \/ \E vid \in WatchIds, text \in Texts : Cmd8AddComment(vid, text)
    \/ \E vid \in {1}, cid \in MenuCommentIds : Cmd9LikeComment(vid, cid)
    \/ \E pname \in {"P"} : Cmd12CreatePlaylist(pname)
    \/ \E pname \in {"P"}, vid \in WatchIds : Cmd13AddToPlaylist(pname, vid)
    \/ \E pname \in {"P"} : Cmd14PlayPlaylist(pname)

SpecMenu == InitMain /\ [][NextMenu]_vars

----------------------------------------------------------------------------
(* SpecVariants: the commands that make, watch and play videos, with the
   shared-ownership variant executing every command line too (Track) *)
NextVariants ==
    \/ \E uname \in {"alice"} : Cmd1Register(uname)
    \/ \E uname \in {"alice"} : Cmd2Login(uname)
    \/ Cmd3Logout
    \/ \E cname \in {"C"}, desc \in Descriptions : Cmd4CreateChannel(cname, desc)
    \/ \E cname \in {"C"}, t \in Titles, d \in Durations : Cmd5Upload(cname, t, d)
    \/ \E vid \in WatchIds : Cmd7Watch(vid)
    \/ \E pname \in {"P"} : Cmd12CreatePlaylist(pname)
    \/ \E pname \in {"P"}, vid \in WatchIds : Cmd13AddToPlaylist(pname, vid)
    \/ \E pname \in {"P"} : Cmd14PlayPlaylist(pname)

SpecVariants == InitMain /\ [][NextVariants]_vars

----------------------------------------------------------------------------
(* SpecPlayback: a user watching the first two default videos, logged in or
   not, putting them in a playlist and playing it *)
PlaybackIds == {NoId, 1, 2}

NextPlayback ==
    \/ \E uname \in {"alice"} : Cmd1Register(uname)
    \/ \E uname \in {"alice"} : Cmd2Login(uname)
    \/ Cmd3Logout
    \/ \E vid \in PlaybackIds : Cmd7Watch(vid)
    \/ \E pname \in {"P"} : Cmd12CreatePlaylist(pname)
    \/ \E pname \in {"P"}, vid \in PlaybackIds : Cmd13AddToPlaylist(pname, vid)
    \/ \E pname \in {"P"} : Cmd14PlayPlaylist(pname)

SpecPlayback == InitMain /\ [][NextPlayback]_vars

----------------------------------------------------------------------------
(* SpecOwner: uploads by users of whom one has the name that owns the
   default channels *)
OwnerUsernames == {"alice", "system"}
OwnerChannelNames == {"C", "KavyaTech", "X"}

NextOwner ==
    \/ \E uname \in OwnerUsernames : Cmd1Register(uname)
    \/ \E uname \in OwnerUsernames : Cmd2Login(uname)
    \/ Cmd3Logout
    \/ \E cname \in {"C"}, desc \in Descriptions : Cmd4CreateChannel(cname, desc)
    \/ \E cname \in OwnerChannelNames, t \in Titles, d \in Durations : Cmd5Upload(cname, t, d)

SpecOwner == InitMain /\ [][NextOwner]_vars

(* ------------------------------------------------------------------ *)
(* The command loop of main() on a finite cin                          *)
(* ------------------------------------------------------------------ *)

(* lines of cin: empty, not a number, numbers, a number followed by text *)
InputLines == {"", "x", "0", "1", "2", "3", "55", "99", "99x"}

(* stoi: the leading digits of the line; it throws on the lines outside its domain *)
Stoi == ("0" :> 0) @@ ("1" :> 1) @@ ("2" :> 2) @@ ("3" :> 3) @@ ("55" :> 55)
        @@ ("99" :> 99) @@ ("99x" :> 99)

(* cin holds at most MaxInput lines *)
InitLoop ==
    /\ InitEntities
    /\ \E n \in 0..MaxInput : \E in \in [1..n -> InputLines] :
           loop = [input |-> in, failed |-> 0, pc |-> "prompt"]

(* the loop is at its prompt (the reads that fail are counted up to MaxFailedReads) *)
AtPrompt == loop.pc = "prompt" /\ loop.failed < MaxFailedReads

(* the line read at the prompt, as a number *)
CmdRead(n) == AtPrompt /\ NextLine(loop) \in DOMAIN Stoi /\ Stoi[NextLine(loop)] = n

(* if (cmdS.empty()) continue; *)
LoopEmptyLine ==
    /\ AtPrompt
    /\ NextLine(loop) = ""
    /\ loop' = ReadLine(loop)
    /\ UNCHANGED <<counter, video, chan, user, videos, current, last, minted, scen, reg, got, shared, perf>>

(* catch(...) { cout << "Enter a number\n"; continue; } *)
LoopNotANumber ==
    /\ AtPrompt
    /\ NextLine(loop) # ""
    /\ NextLine(loop) \notin DOMAIN Stoi
    /\ loop' = ReadLine(loop)
    /\ last' = Returned("loop", <<NextLine(loop)>>, Printed(<<"Enter a number">>))
    /\ UNCHANGED <<counter, video, chan, user, videos, current, minted, scen, reg, got, shared, perf>>

(* command 0: the menu *)
LoopMenu ==
    /\ CmdRead(0)
    /\ last' = Returned("cmd0", <<>>, Printed(<<"menu">>))
    /\ Track(<<"cmd0">>)
    /\ UNCHANGED <<counter, video, chan, user, videos, current, minted, reg, got, perf>>

(* command 99: break *)
LoopQuit ==
    /\ CmdRead(99)
    /\ loop' = [ReadLine(loop) EXCEPT !.pc = "done"]
    /\ last' = Returned("cmd99", <<>>, Printed(<<"Goodbye">>))
    /\ UNCHANGED <<counter, video, chan, user, videos, current, minted, scen, reg, got, shared, perf>>

(* a number that is no command *)
LoopUnknown ==
    /\ CmdRead(55)
    /\ last' = Returned("unknown", <<55>>, Printed(<<"Unknown command">>))
    /\ Track(<<"unknown">>)
    /\ UNCHANGED <<counter, video, chan, user, videos, current, minted, reg, got, perf>>

NextLoop ==
    \/ LoopEmptyLine
    \/ LoopNotANumber
    \/ LoopMenu
    \/ CmdRead(1) /\ Cmd1Register(NextLine(ReadLine(loop)))
    \/ CmdRead(2) /\ Cmd2Login(NextLine(ReadLine(loop)))
    \/ CmdRead(3) /\ Cmd3Logout
    \/ LoopQuit
    \/ LoopUnknown

SpecLoop == InitLoop /\ [][NextLoop]_vars

(* ------------------------------------------------------------------ *)
(* Commands 17 and 18: performance logging and the benchmark           *)
(* ------------------------------------------------------------------ *)

(* command 17: PERF_LOGGING = !PERF_LOGGING *)
Cmd17TogglePerf ==
    /\ perf' = ~perf
    /\ last' = Returned("cmd17", <<>>,
                        Printed(<<"Performance logging", IF ~perf THEN "ENABLED" ELSE "DISABLED">>))
    /\ Track(<<"cmd17">>)
    /\ UNCHANGED <<counter, video, chan, user, videos, current, minted, reg, got>>

(* the loop of test 2 with only its first addComment call *)
BenchmarkCommentsOnce(st, n) ==
    [video |-> AddCommentState(st.video, "benchuser", "test comment", st.counter),
     counter |-> IdGenNext(st.counter),
     minted |-> Append(st.minted, [id |-> IdGenNext(st.counter), kind |-> "Comment"])]

(* test 2: n calls of testVid->addComment("benchuser", "test comment");
   st holds the video, the id counter and the ids minted so far, and the
   i-th call finds the counter advanced by the i - 1 calls before it *)
BenchmarkComments(st, n) ==
    [video |-> [st.video EXCEPT !.comments =
                    @ \o [i \in 1..n |-> NewComment("benchuser", "test comment", st.counter + i - 1)]],
     counter |-> st.counter + n,
     minted |-> st.minted \o [i \in 1..n |-> [id |-> IdGenNext(st.counter + i - 1), kind |-> "Comment"]]]

(* command 18: the benchmark. videos.begin() is whichever video the
   unordered_map iterates first; the lookups of test 1 and the search of
   test 3 change nothing; the command is recorded with the value
   PERF_LOGGING had when it started *)
Cmd18Benchmark ==
    /\ counter + BenchComments <= MaxBenchId
    /\ IF DOMAIN videos = {}
       THEN UNCHANGED <<video, counter, minted>>
       ELSE \E id \in DOMAIN videos :
                LET st == BenchmarkComments([video |-> video[videos[id]], counter |-> counter,
                                             minted |-> minted], BenchComments)
                IN  /\ video' = [video EXCEPT ![videos[id]] = st.video]
                    /\ counter' = st.counter
                    /\ minted' = st.minted
    /\ perf' = FALSE
    /\ last' = Returned("cmd18", <<perf>>, Printed(<<"BENCHMARK COMPLETE">>))
    /\ Track(<<"cmd18">>)
    /\ UNCHANGED <<chan, user, videos, current, reg, got>>

NextBench ==
    \/ \E uname \in {"alice"} : Cmd1Register(uname)
    \/ \E uname \in {"alice"} : Cmd2Login(uname)
    \/ \E cname \in {"KavyaTech"} : Cmd6Subscribe(cname)
    \/ \E vid \in {1} : Cmd7Watch(vid)
    \/ \E vid \in {1}, text \in {"hi"} : Cmd8AddComment(vid, text)
    \/ \E vid \in {1}, cid \in MenuCommentIds : Cmd9LikeComment(vid, cid)
    \/ \E pname \in {"P"} : Cmd12CreatePlaylist(pname)
    \/ \E pname \in {"P"}, vid \in {1} : Cmd13AddToPlaylist(pname, vid)
    \/ Cmd17TogglePerf
    \/ Cmd18Benchmark

SpecBench == InitMain /\ [][NextBench]_vars

----------------------------------------------------------------------------
(* Every action sets last' to the call it models and that call's arguments, *)
(* so in a step last'.op names the call that made the step and last'.args   *)
(* its arguments.                                                           *)

(* Claims about playback (SpecPlay)                                         *)

(* C1: over every sequence of play() and pause() calls on a video that starts
   with view count 0, the view count equals the number of play() calls that
   returned SUCCESS; a rejected play() and every pause() leave the view
   count as it was. *)
C1_ViewsCountSuccessfulPlays ==
    /\ [](\A id \in DOMAIN video : video[id].views = video[id].okPlays)
    /\ [][(last'.op = "Video::play" /\ last'.status # SUCCESS) =>
              video'[last'.args[1]].views = video[last'.args[1]].views]_vars
    /\ [][last'.op = "Video::pause" =>
              video'[last'.args[1]].views = video[last'.args[1]].views]_vars

(* a video played, paused and played again (two views), and then a rejected play() *)
C1_Witness ==
    \E id \in DOMAIN video :
        /\ video[id].views = 2
        /\ video[id].playing
        /\ last.op = "Video::play"
        /\ last.status = ALREADY_EXISTS

(* C2: a video is created Paused with view count 0; play() on a Paused video
   gives Playing and SUCCESS, pause() on a Playing video gives Paused and
   SUCCESS; play() on a Playing video returns ALREADY_EXISTS and pause() on a
   Paused video returns INVALID_INPUT, both without changing the playing
   flag or the view count; so play(); play() adds one view and the second
   call does not succeed. *)
C2_PlayPauseStateMachine ==
    /\ [][last'.op = "Channel::upload" =>
              /\ last'.id \notin DOMAIN video
              /\ video'[last'.id].views = 0
              /\ ~video'[last'.id].playing]_vars
    /\ [][(last'.op = "Video::play" /\ ~video[last'.args[1]].playing) =>
              /\ video'[last'.args[1]].playing
              /\ video'[last'.args[1]].views = video[last'.args[1]].views + 1
              /\ last'.status = SUCCESS]_vars
    /\ [][(last'.op = "Video::pause" /\ video[last'.args[1]].playing) =>
              /\ ~video'[last'.args[1]].playing
              /\ video'[last'.args[1]].views = video[last'.args[1]].views
              /\ last'.status = SUCCESS]_vars
    /\ [][(last'.op = "Video::play" /\ video[last'.args[1]].playing) =>
              /\ video'[last'.args[1]].playing
              /\ video'[last'.args[1]].views = video[last'.args[1]].views
              /\ last'.status = ALREADY_EXISTS]_vars
    /\ [][(last'.op = "Video::pause" /\ ~video[last'.args[1]].playing) =>
              /\ ~video'[last'.args[1]].playing
              /\ video'[last'.args[1]].views = video[last'.args[1]].views
              /\ last'.status = INVALID_INPUT]_vars

(* play(); play() on a fresh video: one view, the second call rejected *)
C2_Witness ==
    \E id \in DOMAIN video :
        /\ video[id].views = 1
        /\ video[id].playing
        /\ last.op = "Video::play"
        /\ last.status = ALREADY_EXISTS

----------------------------------------------------------------------------
(* Claims about comments and identifiers (Spec)                             *)

(* the ids of the comments now on video v *)
CommentIdsOf(v) == {v.comments[i].id : i \in DOMAIN v.comments}

LiveCommentIds == UNION {CommentIdsOf(video[id]) : id \in DOMAIN video}

MintedIds(kind) == {minted[i].id : i \in {j \in DOMAIN minted : minted[j].kind = kind}}

(* the ids of the comments that were removed *)
RemovedIds == MintedIds("Comment") \ LiveCommentIds

(* C3: removeComment(id, requester, channelOwner) returns SUCCESS if and only
   if the video has a comment with that id and requester is its author or is
   channelOwner; PERMISSION_DENIED when the comment exists and requester is
   neither; NOT_FOUND when the video has no comment with that id, whoever
   asks. *)
C3_RemoveCommentPermission ==
    [][last'.op = "Video::removeComment" =>
        LET cs == video[last'.args[1]].comments
            cid == last'.args[2]
            r == last'.args[3]
            o == last'.args[4]
            present == \E i \in DOMAIN cs : cs[i].id = cid
            allowed == \E i \in DOMAIN cs : cs[i].id = cid /\ (r = cs[i].author \/ r = o)
        IN  /\ (last'.status = SUCCESS) <=> (present /\ allowed)
            /\ (present /\ ~allowed) => last'.status = PERMISSION_DENIED
            /\ ~present => last'.status = NOT_FOUND]_vars

(* a requester who is neither the author nor channelOwner was refused, and the comment is still there *)
C3_Witness ==
    /\ last.op = "Video::removeComment"
    /\ last.status = PERMISSION_DENIED
    /\ last.args[2] \in CommentIdsOf(video[last.args[1]])

(* C4: across every interleaving of uploads, comment additions and comment
   removals, each id minted is greater than all ids minted before it, every
   Video and every Comment carries the id minted for it (so no Video and
   Comment share an id, and no two objects do), and the id of a removed
   comment is never the id of a later Video or Comment. *)
C4_IdsUniqueNeverReused ==
    /\ [](\A i, j \in DOMAIN minted : i < j => minted[i].id < minted[j].id)
    /\ [](/\ DOMAIN video = MintedIds("Video")
          /\ \A id \in DOMAIN video : video[id].id = id
          /\ LiveCommentIds \subseteq MintedIds("Comment")
          /\ MintedIds("Video") \cap MintedIds("Comment") = {}
          /\ \A id \in DOMAIN video : Cardinality(CommentIdsOf(video[id])) = Len(video[id].comments)
          /\ \A a, b \in DOMAIN video :
                a # b => CommentIdsOf(video[a]) \cap CommentIdsOf(video[b]) = {})
    /\ [][/\ RemovedIds \subseteq RemovedIds'
          /\ RemovedIds \cap (DOMAIN video' \cup LiveCommentIds') = {}]_vars

(* a comment was removed and a later comment got a greater id *)
C4_Witness ==
    \E r \in RemovedIds : \E l \in LiveCommentIds : l > r

(* C10: on a video of alice's channel, alice's addComment("hi") returns
   SUCCESS with a new comment id N; removeComment(N, "bob", "alice") returns
   PERMISSION_DENIED and the comment stays; removeComment(N, "alice",
   "alice") returns SUCCESS and the comment is gone; from then on
   likeComment(N) returns NOT_FOUND, whatever addComment calls follow. *)
C10_CommentScenario ==
    /\ [][(/\ last'.op = "Video::addComment"
           /\ last'.args[2] = "alice"
           /\ last'.args[3] = "hi"
           /\ chan[video[last'.args[1]].uploader].owner = "alice") =>
              /\ last'.status = SUCCESS
              /\ last'.id \notin MintedIds("Comment") \cup MintedIds("Video")
              /\ last'.id \in CommentIdsOf(video'[last'.args[1]])]_vars
    /\ [][(/\ last'.op = "Video::removeComment"
           /\ last'.args[3] = "bob"
           /\ last'.args[4] = "alice"
           /\ \E i \in DOMAIN video[last'.args[1]].comments :
                 /\ video[last'.args[1]].comments[i].id = last'.args[2]
                 /\ video[last'.args[1]].comments[i].author = "alice") =>
              /\ last'.status = PERMISSION_DENIED
              /\ video'[last'.args[1]].comments = video[last'.args[1]].comments]_vars
    /\ [][(/\ last'.op = "Video::removeComment"
           /\ last'.args[3] = "alice"
           /\ last'.args[4] = "alice"
           /\ \E i \in DOMAIN video[last'.args[1]].comments :
                 /\ video[last'.args[1]].comments[i].id = last'.args[2]
                 /\ video[last'.args[1]].comments[i].author = "alice") =>
              /\ last'.status = SUCCESS
              /\ last'.args[2] \notin CommentIdsOf(video'[last'.args[1]])
              /\ last'.args[2] \in RemovedIds']_vars
    /\ [][(last'.op = "Video::likeComment" /\ last'.args[2] \in RemovedIds) =>
              last'.status = NOT_FOUND]_vars
    /\ [][last'.op = "Video::addComment" => RemovedIds \subseteq RemovedIds']_vars

(* N was removed, another comment was added after it, and likeComment(N) returned NOT_FOUND *)
C10_Witness ==
    /\ last.op = "Video::likeComment"
    /\ last.status = NOT_FOUND
    /\ last.args[2] \in RemovedIds
    /\ \E l \in CommentIdsOf(video[last.args[1]]) : l > last.args[2]

----------------------------------------------------------------------------
(* Claims about concurrent id generation (SpecIdGen)                        *)

RECURSIVE CallsUpTo(_)
CallsUpTo(k) ==
    IF k = 0 THEN 0
    ELSE CallsUpTo(k - 1) + Len(got[k]) + (IF reg[k] # 0 THEN 1 ELSE 0)

(* the number of next() calls that executed their increment *)
CallsMade == CallsUpTo(NThreads)

(* the values those calls return *)
ValuesReturned ==
    UNION {{got[t][i] : i \in DOMAIN got[t]} : t \in Threads} \cup {reg[t] : t \in {u \in Threads : reg[u] # 0}}

(* C5: with several threads calling IdGen::next() concurrently, in every
   interleaving no two calls return the same value, and after n calls the
   values returned are exactly 1..n. *)
C5_ConcurrentNextUnique ==
    /\ Cardinality(ValuesReturned) = CallsMade
    /\ ValuesReturned = 1..CallsMade

(* two threads interleaved: a thread's consecutive calls got values that are not consecutive *)
C5_Witness ==
    \E t \in Threads :
        /\ Len(got[t]) >= 2
        /\ got[t][2] > got[t][1] + 1
        /\ \E u \in Threads \ {t} : got[u] # <<>>

----------------------------------------------------------------------------
(* Claims about subscriptions (SpecSub)                                     *)

(* C6: Channel::subscribe(user) for a user not in the subscriber set returns
   SUCCESS and adds exactly that user; for a user already in it, it returns
   ALREADY_EXISTS and leaves the set, members and size, unchanged. *)
C6_SubscribeIdempotent ==
    [][last'.op = "Channel::subscribe" =>
        LET c == last'.args[1]
            u == last'.args[2]
        IN  IF u \notin chan[c].subscribers
            THEN /\ last'.status = SUCCESS
                 /\ chan'[c].subscribers = chan[c].subscribers \cup {u}
                 /\ Cardinality(chan'[c].subscribers) = Cardinality(chan[c].subscribers) + 1
            ELSE /\ last'.status = ALREADY_EXISTS
                 /\ chan'[c].subscribers = chan[c].subscribers
                 /\ Cardinality(chan'[c].subscribers) = Cardinality(chan[c].subscribers)]_vars

(* a repeated subscribe was answered ALREADY_EXISTS, the user still subscribed *)
C6_Witness ==
    /\ last.op = "Channel::subscribe"
    /\ last.status = ALREADY_EXISTS
    /\ last.args[2] \in chan[last.args[1]].subscribers

(* C7: User::subscribeChannel(channel) returns ALREADY_EXISTS without changing
   the user's subscription set or the channel's subscriber set exactly when
   the channel name is already in the user's subscription set; otherwise it
   adds the name to the user's set, calls Channel::subscribe(username) and
   returns that call's result; after a SUCCESS the username is in the
   channel's subscriber set and the channel name in the user's set. *)
C7_SubscribeChannel ==
    [][last'.op = "User::subscribeChannel" =>
        LET u == last'.args[1]
            c == last'.args[2]
            already == chan[c].name \in user[u].subscriptions
        IN  /\ (last'.status = ALREADY_EXISTS /\ user' = user /\ chan' = chan) <=> already
            /\ ~already =>
                  /\ user'[u].subscriptions = user[u].subscriptions \cup {chan[c].name}
                  /\ chan'[c].subscribers = chan[c].subscribers \cup {user[u].username}
                  /\ IF user[u].username \in chan[c].subscribers
                     THEN /\ last'.status = ALREADY_EXISTS
                          /\ last'.message = <<user[u].username, "already subscribed">>
                     ELSE /\ last'.status = SUCCESS
                          /\ last'.message = <<user[u].username, "subscribed to", chan[c].name>>
            /\ last'.status = SUCCESS =>
                  /\ user[u].username \in chan'[c].subscribers
                  /\ chan[c].name \in user'[u].subscriptions]_vars

(* the user was not subscribed on the user's side but already in the channel's
   set: the name was added and Channel::subscribe's ALREADY_EXISTS came back *)
C7_Witness ==
    /\ last.op = "User::subscribeChannel"
    /\ last.status = ALREADY_EXISTS
    /\ last.message = <<last.args[1], "already subscribed">>
    /\ last.args[2] \in user[last.args[1]].subscriptions

----------------------------------------------------------------------------
(* Claims about watching (SpecWatch)                                        *)

(* C8: User::watch(video) with an absent video returns NOT_FOUND and changes no
   watch history and no video; with a present video it appends the video's id
   once to the end of the user's watch history and returns the status and
   message of Video::play(), so the history grows by one entry on every such
   call, also when play() is rejected because the video is already playing. *)
C8_Watch ==
    [][last'.op = "User::watch" =>
        LET u == last'.args[1]
            id == last'.args[2]
        IN  IF id = NullVideo
            THEN /\ last'.status = NOT_FOUND
                 /\ user' = user
                 /\ video' = video
            ELSE /\ user'[u].historyIds = Append(user[u].historyIds, id)
                 /\ \A w \in DOMAIN user \ {u} : user'[w] = user[w]
                 /\ \A o \in DOMAIN video \ {id} : video'[o] = video[o]
                 /\ IF video[id].playing
                    THEN /\ last'.status = ALREADY_EXISTS
                         /\ last'.message = <<"Already playing", video[id].title>>
                         /\ video'[id] = video[id]
                    ELSE /\ last'.status = SUCCESS
                         /\ last'.message = <<"Playing", video[id].title, video[id].views + 1>>
                         /\ video'[id].playing
                         /\ video'[id].views = video[id].views + 1]_vars

(* a user watched two different videos, the second one while it was already playing *)
C8_Witness ==
    \E u \in DOMAIN user :
        /\ Len(user[u].historyIds) = 2
        /\ user[u].historyIds[1] # user[u].historyIds[2]
        /\ last.op = "User::watch"
        /\ last.status = ALREADY_EXISTS
        /\ last.args = <<u, user[u].historyIds[2]>>

----------------------------------------------------------------------------
(* Claims about the menu (SpecMain)                                         *)

(* C9: in the run from the program's start that registers "alice", logs her
   in, creates channel "C", uploads "V1" (duration 100) to it and watches the
   uploaded video twice: the upload returns video id 4, the ids 1..3 being
   those of the three default videos; the first watch returns SUCCESS with
   message Playing "V1" (views: 1); the second returns ALREADY_EXISTS and the
   view count is still 1. *)
C9_ScenarioFromStart ==
    /\ scen = 4 =>
          /\ last.id = 4
          /\ last.id \in DOMAIN videos
          /\ video[videos[last.id]].title = "V1"
    /\ scen = 5 =>
          /\ last.status = SUCCESS
          /\ last.message = <<"Playing", "V1", 1>>
    /\ scen = 6 =>
          /\ last.status = ALREADY_EXISTS
          /\ video[videos[last.args[1]]].title = "V1"
          /\ video[videos[last.args[1]]].views = 1

(* C9 as stated: the same run, with the upload returning video id 1 *)
C9_Original ==
    /\ scen = 4 => last.id = 1
    /\ scen = 5 =>
          /\ last.status = SUCCESS
          /\ last.message = <<"Playing", "V1", 1>>
    /\ scen = 6 =>
          /\ last.status = ALREADY_EXISTS
          /\ video[videos[last.args[1]]].views = 1

(* the whole scenario has run *)
C9_Witness == scen = 6 /\ last.op = "cmd7" /\ current = "alice"

----------------------------------------------------------------------------
(* Claims about commenting through a User (SpecComment)                     *)

(* the step added one comment by author a with text t at the end of video
   id's comments and returned SUCCESS with its id, an id minted in this step;
   the comments already there, the views, the playing flag and every other
   video are as before *)
AddedOneComment(id, a, t) ==
    LET old == video[id].comments
        new == video'[id].comments
    IN  /\ last'.status = SUCCESS
        /\ Len(new) = Len(old) + 1
        /\ SubSeq(new, 1, Len(old)) = old
        /\ new[Len(new)].author = a
        /\ new[Len(new)].text = t
        /\ new[Len(new)].likes = 0
        /\ new[Len(new)].id = last'.id
        /\ last'.id \notin MintedIds("Comment") \cup MintedIds("Video")
        /\ minted' = Append(minted, [id |-> last'.id, kind |-> "Comment"])
        /\ video'[id].views = video[id].views
        /\ video'[id].playing = video[id].playing
        /\ \A o \in DOMAIN video \ {id} : video'[o] = video[o]

(* C11: Video::addComment(author, text) always returns SUCCESS: it appends one
   comment at the end of the video's comments, with that author, 0 likes and
   a newly minted id, which the result carries, and leaves the comments
   already there, the views and the playing flag unchanged.
   User::addComment(video, text) returns NOT_FOUND for an absent video,
   changing nothing, and otherwise does the same with the user's username as
   author. *)
C11_AddComment ==
    /\ [][last'.op = "Video::addComment" =>
              AddedOneComment(last'.args[1], last'.args[2], last'.args[3])]_vars
    /\ [][last'.op = "User::addComment" =>
              IF last'.args[2] = NullVideo
              THEN /\ last'.status = NOT_FOUND
                   /\ video' = video
                   /\ minted' = minted
              ELSE AddedOneComment(last'.args[2], user[last'.args[1]].username, last'.args[3])]_vars

(* bob commented through User::addComment on a playing video that already had
   a comment by someone else *)
C11_Witness ==
    /\ last.op = "User::addComment"
    /\ last.status = SUCCESS
    /\ LET v == video[last.args[2]]
       IN  /\ v.playing
           /\ Len(v.comments) = 2
           /\ v.comments[1].author # last.args[1]
           /\ v.comments[2].author = last.args[1]
           /\ v.comments[2].id = last.id

----------------------------------------------------------------------------
(* More claims about comments (Spec)                                        *)

(* C12: Video::likeComment(cid), when the video has a comment with id cid,
   returns SUCCESS and raises that comment's likes by exactly 1, every other
   comment's likes staying as they were; otherwise it returns NOT_FOUND and
   no likes change.  Under no operation do the likes of a comment decrease. *)
C12_LikeComment ==
    /\ [][last'.op = "Video::likeComment" =>
              LET id == last'.args[1]
                  cid == last'.args[2]
                  old == video[id].comments
                  new == video'[id].comments
              IN  /\ Len(new) = Len(old)
                  /\ \A o \in DOMAIN video \ {id} : video'[o].comments = video[o].comments
                  /\ IF cid \in CommentIdsOf(video[id])
                     THEN /\ last'.status = SUCCESS
                          /\ \A i \in DOMAIN old :
                                /\ new[i].id = old[i].id
                                /\ new[i].likes = old[i].likes + (IF old[i].id = cid THEN 1 ELSE 0)
                     ELSE /\ last'.status = NOT_FOUND
                          /\ new = old]_vars
    /\ [][\A id \in DOMAIN video :
              \A i \in DOMAIN video[id].comments : \A j \in DOMAIN video'[id].comments :
                  video'[id].comments[j].id = video[id].comments[i].id =>
                      video'[id].comments[j].likes >= video[id].comments[i].likes]_vars

(* the second of two comments was liked: it has one like, the first has none *)
C12_Witness ==
    /\ last.op = "Video::likeComment"
    /\ last.status = SUCCESS
    /\ LET cs == video[last.args[1]].comments
       IN  /\ Len(cs) = 2
           /\ cs[2].id = last.args[2]
           /\ cs[2].likes = 1
           /\ cs[1].likes = 0

----------------------------------------------------------------------------
(* Claims about uploads (SpecPlay)                                          *)

(* the places <<channel, index>> where video id is listed in some channel's uploads *)
UploadPlaces(id) ==
    {p \in UNION {{<<c, i>> : i \in DOMAIN chan[c].uploads} : c \in DOMAIN chan} :
        chan[p[1]].uploads[p[2]] = id}

(* C13: Channel::upload(title, duration) always succeeds (the pointer it
   returns is never null): it makes one new
   video, Paused, with 0 views and an id no video had, and appends it to the
   end of this channel's uploads.  In every reachable state each video is in
   the uploads of exactly one channel, exactly once; an upload keeps its
   position and is never removed. *)
C13_Upload ==
    /\ [][last'.op = "Channel::upload" =>
              LET c == last'.args[1]
                  id == last'.id
              IN  /\ id # NullVideo
                  /\ id \notin DOMAIN video
                  /\ id \notin MintedIds("Video") \cup MintedIds("Comment")
                  /\ DOMAIN video' = DOMAIN video \cup {id}
                  /\ \A o \in DOMAIN video : video'[o] = video[o]
                  /\ video'[id].id = id
                  /\ video'[id].title = last'.args[2]
                  /\ video'[id].durationSec = last'.args[3]
                  /\ video'[id].views = 0
                  /\ ~video'[id].playing
                  /\ chan'[c].uploads = Append(chan[c].uploads, id)
                  /\ \A o \in DOMAIN chan \ {c} : chan'[o] = chan[o]]_vars
    /\ [](\A id \in DOMAIN video :
              /\ Cardinality(UploadPlaces(id)) = 1
              /\ \A p \in UploadPlaces(id) : video[id].uploader = chan[p[1]].name)
    /\ [][\A c \in DOMAIN chan : \A i \in DOMAIN chan[c].uploads :
              /\ c \in DOMAIN chan'
              /\ i \in DOMAIN chan'[c].uploads
              /\ chan'[c].uploads[i] = chan[c].uploads[i]]_vars

(* a channel got its second upload while an earlier video was playing, and
   the other channel has an upload too *)
C13_Witness ==
    /\ last.op = "Channel::upload"
    /\ Len(chan[last.args[1]].uploads) = 2
    /\ chan[last.args[1]].uploads[2] = last.id
    /\ video[chan[last.args[1]].uploads[1]].playing
    /\ \E d \in DOMAIN chan \ {last.args[1]} : Len(chan[d].uploads) = 1

----------------------------------------------------------------------------
(* More claims about subscriptions (SpecSub)                                *)

(* C14: Channel::unsubscribe(user) returns SUCCESS and removes exactly that
   user from the subscriber set when the user is in it; otherwise it returns
   NOT_FOUND and the set is unchanged.  Either way no user's subscription set
   changes. *)
C14_Unsubscribe ==
    [][last'.op = "Channel::unsubscribe" =>
        LET c == last'.args[1]
            u == last'.args[2]
        IN  /\ IF u \in chan[c].subscribers
               THEN /\ last'.status = SUCCESS
                    /\ chan'[c].subscribers = chan[c].subscribers \ {u}
                    /\ Cardinality(chan'[c].subscribers) = Cardinality(chan[c].subscribers) - 1
               ELSE /\ last'.status = NOT_FOUND
                    /\ chan'[c].subscribers = chan[c].subscribers
            /\ \A w \in DOMAIN user : user'[w].subscriptions = user[w].subscriptions
            /\ \A o \in DOMAIN chan \ {c} : chan'[o] = chan[o]]_vars

(* a user who had subscribed through User::subscribeChannel was unsubscribed
   on the channel: gone from its subscribers, where another user remains,
   the channel's name still among the user's subscriptions *)
C14_Witness ==
    /\ last.op = "Channel::unsubscribe"
    /\ last.status = SUCCESS
    /\ last.args[2] \notin chan[last.args[1]].subscribers
    /\ chan[last.args[1]].subscribers # {}
    /\ last.args[1] \in user[last.args[2]].subscriptions

----------------------------------------------------------------------------
(* Claims about playlists (SpecPlaylist)                                    *)

(* C15: User::createPlaylist(name) returns ALREADY_EXISTS when this user has a
   playlist of that name, which then keeps its video ids; otherwise it
   creates an empty playlist of that name for this user and returns SUCCESS. *)
C15_CreatePlaylist ==
    [][last'.op = "User::createPlaylist" =>
        LET u == last'.args[1]
            n == last'.args[2]
        IN  /\ IF n \in DOMAIN user[u].playlists
               THEN /\ last'.status = ALREADY_EXISTS
                    /\ user'[u].playlists = user[u].playlists
                    /\ user'[u].playlists[n].videoIds = user[u].playlists[n].videoIds
               ELSE /\ last'.status = SUCCESS
                    /\ DOMAIN user'[u].playlists = DOMAIN user[u].playlists \cup {n}
                    /\ user'[u].playlists[n].name = n
                    /\ user'[u].playlists[n].videoIds = <<>>
                    /\ \A o \in DOMAIN user[u].playlists : user'[u].playlists[o] = user[u].playlists[o]
            /\ \A w \in DOMAIN user \ {u} : user'[w] = user[w]]_vars

(* createPlaylist was refused for a name whose playlist holds videos, and still holds them *)
C15_Witness ==
    /\ last.op = "User::createPlaylist"
    /\ last.status = ALREADY_EXISTS
    /\ Len(user[last.args[1]].playlists[last.args[2]].videoIds) = 2
    /\ DOMAIN user[last.args[1]].playlists = {last.args[2]}

(* C16: playlists belong to their user.  User::getPlaylist(name) returns a
   playlist, this user's playlist of that name, exactly when createPlaylist(name)
   returned SUCCESS before on this same user, and nullptr otherwise, whatever
   playlists other users have; createPlaylist(name) succeeds for a user who
   has no such playlist also when another user has one; Playlist::add on one
   user's playlist changes no other user and no other playlist. *)
C16_PlaylistsPerUser ==
    /\ [][last'.op = "User::getPlaylist" =>
              LET u == last'.args[1]
                  n == last'.args[2]
              IN  /\ (last'.message # NullPlaylist) <=> (n \in user[u].created)
                  /\ last'.message # NullPlaylist =>
                        /\ last'.message = <<user[u].username, n>>
                        /\ n \in DOMAIN user[u].playlists
                        /\ user[u].playlists[n].name = n
                  /\ user' = user]_vars
    /\ [][last'.op = "User::createPlaylist" =>
              ((last'.status = SUCCESS) <=> (last'.args[2] \notin user[last'.args[1]].created))]_vars
    /\ [][last'.op = "Playlist::add" =>
              LET u == last'.args[1]
                  n == last'.args[2]
              IN  /\ \A w \in DOMAIN user \ {u} : user'[w] = user[w]
                  /\ DOMAIN user'[u].playlists = DOMAIN user[u].playlists
                  /\ \A o \in DOMAIN user[u].playlists \ {n} :
                        user'[u].playlists[o] = user[u].playlists[o]]_vars

(* two users each have a playlist of the same name, with different contents;
   getPlaylist gave nullptr to a user for a name that only the other user has *)
C16_Witness ==
    /\ last.op = "User::getPlaylist"
    /\ last.message = NullPlaylist
    /\ \E w \in DOMAIN user \ {last.args[1]} :
          /\ last.args[2] \in DOMAIN user[w].playlists
          /\ \E n \in DOMAIN user[w].playlists \cap DOMAIN user[last.args[1]].playlists :
                /\ user[w].playlists[n].videoIds # <<>>
                /\ user[last.args[1]].playlists[n].videoIds = <<>>

(* C17: Playlist::add(videoId, title) appends videoId at the end of the
   playlist's ids for every videoId, also one already in the playlist and one
   that no video has: the ids after the call are the ids before it followed
   by videoId.  Under every operation a playlist keeps its entries, in their
   order; none is ever removed. *)
C17_PlaylistAdd ==
    /\ [][last'.op = "Playlist::add" =>
              LET u == last'.args[1]
                  n == last'.args[2]
              IN  /\ user'[u].playlists[n].videoIds = Append(user[u].playlists[n].videoIds, last'.args[3])
                  /\ user'[u].playlists[n].name = user[u].playlists[n].name]_vars
    /\ [][\A u \in DOMAIN user : \A n \in DOMAIN user[u].playlists :
              /\ n \in DOMAIN user'[u].playlists
              /\ Len(user'[u].playlists[n].videoIds) >= Len(user[u].playlists[n].videoIds)
              /\ \A i \in DOMAIN user[u].playlists[n].videoIds :
                    user'[u].playlists[n].videoIds[i] = user[u].playlists[n].videoIds[i]]_vars

(* an id that no video has was added to a playlist a second time *)
C17_Witness ==
    /\ last.op = "Playlist::add"
    /\ last.args[3] \notin DOMAIN video
    /\ user[last.args[1]].playlists[last.args[2]].videoIds = <<last.args[3], last.args[3]>>

----------------------------------------------------------------------------
(* Claims about Playlist::show (SpecShow)                                   *)

(* the positions of the entries of ids that are keys of the videoMap *)
Resolving(ids, keys) == {i \in DOMAIN ids : ids[i] \in keys}

(* lines holds one line per entry of ids that is a key, in the order of the
   entries, each with the entry's position and the title and id of its
   video, and no other line *)
OneLinePerResolvingEntry(lines, ids, keys) ==
    /\ Len(lines) = Cardinality(Resolving(ids, keys))
    /\ {lines[k][1] : k \in DOMAIN lines} = Resolving(ids, keys)
    /\ \A k, l \in DOMAIN lines : k < l => lines[k][1] < lines[l][1]
    /\ \A k \in DOMAIN lines :
          /\ lines[k][3] = ids[lines[k][1]]
          /\ lines[k][2] = video[ids[lines[k][1]]].title

(* C18: after the line naming the playlist, Playlist::show(videoMap) writes
   "(empty)" when the playlist has no entries, and only then; otherwise it
   writes one line per entry whose id is a key of videoMap, in playlist
   order, and nothing for the other entries, so nothing at all when there
   are entries and none of them resolves. *)
C18_Show ==
    last.op = "Playlist::show" =>
        LET pl == user[last.args[1]].playlists[last.args[2]]
            keys == last.args[3]
        IN  /\ last.message[1] = <<"Playlist:", pl.name>>
            /\ IF pl.videoIds = <<>>
               THEN Tail(last.message) = << <<"(empty)">> >>
               ELSE OneLinePerResolvingEntry(Tail(last.message), pl.videoIds, keys)

(* C18 as stated: "(empty)" also when there are entries and none resolves *)
C18_Original ==
    last.op = "Playlist::show" =>
        LET pl == user[last.args[1]].playlists[last.args[2]]
            keys == last.args[3]
        IN  IF Resolving(pl.videoIds, keys) = {}
            THEN Tail(last.message) = << <<"(empty)">> >>
            ELSE OneLinePerResolvingEntry(Tail(last.message), pl.videoIds, keys)

(* show on a playlist of two entries, one of them the id of a video that the
   videoMap lacks, the other an id no video has: only the first line was written *)
C18_Witness ==
    /\ last.op = "Playlist::show"
    /\ LET ids == user[last.args[1]].playlists[last.args[2]].videoIds
       IN  /\ Len(ids) = 2
           /\ \E i \in DOMAIN ids : ids[i] \in DOMAIN video
           /\ \E i \in DOMAIN ids : ids[i] \notin DOMAIN video
           /\ Resolving(ids, last.args[3]) = {}
    /\ Len(last.message) = 1

----------------------------------------------------------------------------
(* Claims about the registries (SpecRegistry)                               *)

(* what command 1 does to the registries, whatever it reports: with a
   registered name or the empty name it changes no user; otherwise it adds
   one user of that name with no subscriptions, history or playlists, the
   users already there staying as they are; current never changes *)
RegisterEffect(uname) ==
    /\ current' = current
    /\ IF uname = "" \/ uname \in DOMAIN user
       THEN user' = user
       ELSE /\ DOMAIN user' = DOMAIN user \cup {uname}
            /\ \A w \in DOMAIN user : user'[w] = user[w]
            /\ user'[uname].username = uname
            /\ user'[uname].subscriptions = {}
            /\ user'[uname].historyIds = <<>>
            /\ user'[uname].playlists = EmptyFcn

(* C19: register (command 1) with a name that is already registered is
   refused, main printing "User exists" without making an OpResult, and the
   user registry stays as it is: the user of that name keeps subscriptions,
   history and playlists, and current is unchanged; the empty name is refused
   with "Empty name" and registers nothing; any other name adds one user with
   empty subscriptions, history and playlists. *)
C19_Register ==
    [][last'.op = "cmd1" =>
        LET uname == last'.args[1]
        IN  /\ RegisterEffect(uname)
            /\ last'.status = NO_RESULT
            /\ last'.message = IF uname = "" THEN <<"Empty name">>
                               ELSE IF uname \in DOMAIN user THEN <<"User exists">>
                               ELSE <<"Registered user:", uname>>]_vars

(* C19 as stated: the refusal of a registered name is a result with status ALREADY_EXISTS *)
C19_Original ==
    [][last'.op = "cmd1" =>
        LET uname == last'.args[1]
        IN  /\ RegisterEffect(uname)
            /\ uname \in DOMAIN user => last'.status = ALREADY_EXISTS
            /\ uname = "" => last'.status # SUCCESS]_vars

(* registering the name of the logged-in user, who has a subscription, a
   watched video and a playlist, was refused, and the user still has them *)
C19_Witness ==
    /\ last.op = "cmd1"
    /\ last.message = <<"User exists">>
    /\ last.args[1] = current
    /\ user[current].subscriptions # {}
    /\ user[current].historyIds # <<>>
    /\ user[current].playlists # EmptyFcn
    /\ Cardinality(DOMAIN user) = 2

(* in this step command 4 was given, by a logged-in user, a name that is in the channel registry *)
CreateChannelNameTaken == last'.op = "cmd4" /\ last'.args # <<>> /\ last'.args[1] \in DOMAIN chan

(* what the claim says of the channels: the named channel keeps owner, uploads
   and subscribers; every channel keeps its name and owner in every step; a
   registry entry's key is the name of its channel, so no two channels share
   a name *)
ChannelsKept ==
    /\ [][CreateChannelNameTaken =>
              /\ chan'[last'.args[1]].owner = chan[last'.args[1]].owner
              /\ chan'[last'.args[1]].uploads = chan[last'.args[1]].uploads
              /\ chan'[last'.args[1]].subscribers = chan[last'.args[1]].subscribers
              /\ DOMAIN chan' = DOMAIN chan]_vars
    /\ [][\A c \in DOMAIN chan :
              /\ c \in DOMAIN chan'
              /\ chan'[c].name = chan[c].name
              /\ chan'[c].owner = chan[c].owner]_vars
    /\ [](\A c \in DOMAIN chan : chan[c].name = c)

(* C20: create channel (command 4) by a logged-in user with a name that is in
   the channel registry is refused, main printing "Channel exists" without
   making an OpResult, and that channel keeps its owner, uploads and
   subscribers; so it is for the two default channels.  A channel's name and
   owner never change once it is created, and no two channels have the same
   name. *)
C20_CreateChannel ==
    /\ ChannelsKept
    /\ [][CreateChannelNameTaken =>
              /\ last'.status = NO_RESULT
              /\ last'.message = <<"Channel exists">>]_vars

(* C20 as stated: the refusal is a result with status ALREADY_EXISTS *)
C20_Original ==
    /\ ChannelsKept
    /\ [][CreateChannelNameTaken => last'.status = ALREADY_EXISTS]_vars

(* a logged-in user asked for a channel named as a default channel, which has
   uploads and a subscriber and is owned by somebody else: refused, while a
   channel this user created exists too *)
C20_Witness ==
    /\ last.op = "cmd4"
    /\ last.message = <<"Channel exists">>
    /\ last.args[1] = "KavyaTech"
    /\ chan["KavyaTech"].owner # current
    /\ chan["KavyaTech"].subscribers # {}
    /\ Len(chan["KavyaTech"].uploads) = 2
    /\ \E c \in DOMAIN chan : chan[c].owner = current

----------------------------------------------------------------------------
(* More claims about the menu (SpecMain)                                    *)

(* what Video::play() returns and does on the video that vid names in the
   registry, as a function of that video's state alone *)
PlayedOnce(vid) ==
    LET id == videos[vid]
    IN  /\ \A o \in DOMAIN video \ {id} : video'[o] = video[o]
        /\ DOMAIN video' = DOMAIN video
        /\ IF video[id].playing
           THEN /\ last'.status = ALREADY_EXISTS
                /\ last'.message = <<"Already playing", video[id].title>>
                /\ video'[id] = video[id]
           ELSE /\ last'.status = SUCCESS
                /\ last'.message = <<"Playing", video[id].title, video[id].views + 1>>
                /\ video'[id].playing
                /\ video'[id].views = video[id].views + 1
                /\ video'[id].comments = video[id].comments

(* C21: watch (command 7) of a registered video with nobody logged in calls
   Video::play() directly: the result and the effect on the video are those a
   logged-in watch has in the same state of the video, and no user's watch
   history changes; a logged-in watch adds the id to the history of the
   current user alone. *)
C21_AnonymousWatch ==
    [][(last'.op = "cmd7" /\ last'.args[1] \in DOMAIN videos) =>
        /\ PlayedOnce(last'.args[1])
        /\ IF current = NoUser
           THEN user' = user
           ELSE /\ user'[current].historyIds = Append(user[current].historyIds, videos[last'.args[1]])
                /\ \A w \in DOMAIN user \ {current} : user'[w] = user[w]]_vars

(* with nobody logged in, a watch of the video that a user had watched before
   was rejected as already playing; the history has that one entry still *)
C21_Witness ==
    /\ last.op = "cmd7"
    /\ current = NoUser
    /\ last.status = ALREADY_EXISTS
    /\ \E u \in DOMAIN user : user[u].historyIds = <<videos[last.args[1]]>>
    /\ video[videos[last.args[1]]].views = 1

----------------------------------------------------------------------------
(* Claims about search (SpecSearch)                                         *)

(* the lower-case letter of an upper-case one, by position in the alphabet *)
LowerOf(ch) ==
    IF \E i \in DOMAIN UpperCase : UpperCase[i] = ch
    THEN LowerCase[CHOOSE i \in DOMAIN UpperCase : UpperCase[i] = ch]
    ELSE ch

(* needle occurs in hay as a contiguous substring, letters compared without case *)
ContainsIgnoringCase(hay, needle) ==
    \E start \in 0..(Len(hay) - Len(needle)) :
        \A i \in 1..Len(needle) : LowerOf(hay[start + i]) = LowerOf(needle[i])

(* the registry keys in the lines that the last search printed *)
SearchResultKeys == {last.message[i][1] : i \in DOMAIN last.message}

(* C22: search (command 11) prints exactly the registered videos whose title,
   lower-cased, contains the lower-cased query as a contiguous substring,
   each once: "c++" finds "C++ OOP Deep Dive" and not "Chill Loops", the
   empty query finds every registered video; search changes no state. *)
C22_Search ==
    /\ [](last.op = "cmd11" =>
            /\ SearchResultKeys =
                  {k \in DOMAIN videos : ContainsIgnoringCase(Chars[video[videos[k]].title], last.args[1])}
            /\ Cardinality(SearchResultKeys) = Len(last.message)
            /\ \A i \in DOMAIN last.message :
                  last.message[i][2] = video[videos[last.message[i][1]]].title
            /\ last.args[1] = <<"c", "+", "+">> =>
                  /\ \E i \in DOMAIN last.message : last.message[i][2] = "C++ OOP Deep Dive"
                  /\ \A i \in DOMAIN last.message : last.message[i][2] # "Chill Loops"
            /\ last.args[1] = <<>> => SearchResultKeys = DOMAIN videos)
    /\ [][last'.op = "cmd11" =>
              /\ UNCHANGED <<counter, video, chan, user, videos, current, minted>>]_vars

(* the query "v1" found the uploaded video "V1" among four registered videos, and only it *)
C22_Witness ==
    /\ last.op = "cmd11"
    /\ last.args[1] = <<"v", "1">>
    /\ Cardinality(DOMAIN videos) = 4
    /\ Len(last.message) = 1
    /\ last.message[1][2] = "V1"

----------------------------------------------------------------------------
(* Claims about the commands that require a login (SpecMenu)                *)

(* create channel, upload, subscribe, add comment, like comment, create
   playlist, add to playlist, play playlist *)
GatedCommands == {"cmd4", "cmd5", "cmd6", "cmd8", "cmd9", "cmd12", "cmd13", "cmd14"}

(* C23: while nobody is logged in, each of the commands create channel,
   upload, subscribe, add comment, like comment, create playlist, add to
   playlist and play playlist answers "Login required" and changes no
   channel, video, comment, like, subscription, playlist or view count and
   mints no id; no result of a core operation has status NOT_LOGGED_IN. *)
C23_LoginGating ==
    /\ [][(current = NoUser /\ last'.op \in GatedCommands) =>
              /\ last'.message = <<"Login required">>
              /\ UNCHANGED <<counter, minted, video, chan, user, videos, current>>]_vars
    /\ [](last.status # NOT_LOGGED_IN)

(* after a logout, like comment was refused for a comment that exists: it has
   no like, and the user who logged out has a playlist with a video *)
C23_Witness ==
    /\ current = NoUser
    /\ last.op = "cmd9"
    /\ last.message = <<"Login required">>
    /\ \E id \in DOMAIN video :
          /\ video[id].comments # <<>>
          /\ \A i \in DOMAIN video[id].comments : video[id].comments[i].likes = 0
    /\ \E u \in DOMAIN user : \E n \in DOMAIN user[u].playlists : user[u].playlists[n].videoIds # <<>>

----------------------------------------------------------------------------
(* Claims about removing comments (SpecComment)                             *)

(* C26: Video::removeComment changes the comments only when it returns
   SUCCESS: on PERMISSION_DENIED and NOT_FOUND the list, with ids, authors,
   likes and order, is as before; on SUCCESS exactly the comment with the
   given id is gone and the others keep their order and likes.  The views
   and the playing flag never change. *)
C26_RemoveCommentFrame ==
    [][last'.op = "Video::removeComment" =>
        LET id == last'.args[1]
            cid == last'.args[2]
            old == video[id].comments
            new == video'[id].comments
            at == CHOOSE i \in DOMAIN old : old[i].id = cid
        IN  /\ last'.status \in {SUCCESS, PERMISSION_DENIED, NOT_FOUND}
            /\ last'.status # SUCCESS => new = old
            /\ last'.status = SUCCESS =>
                  /\ cid \in CommentIdsOf(video[id])
                  /\ Len(new) = Len(old) - 1
                  /\ \A i \in DOMAIN new : new[i] = IF i < at THEN old[i] ELSE old[i + 1]
                  /\ cid \notin CommentIdsOf(video'[id])
            /\ video'[id].views = video[id].views
            /\ video'[id].playing = video[id].playing
            /\ \A o \in DOMAIN video \ {id} : video'[o] = video[o]]_vars

(* the first of two comments, which had a like, was removed from a playing
   video that has a view; the second comment is now the only one *)
C26_Witness ==
    /\ last.op = "Video::removeComment"
    /\ last.status = SUCCESS
    /\ LET v == video[last.args[1]]
       IN  /\ v.playing
           /\ v.views = 1
           /\ Len(v.comments) = 1
           /\ v.comments[1].id > last.args[2]

(* the ids of a comment list, in list order *)
IdsInOrder(cs) == [i \in DOMAIN cs |-> cs[i].id]

(* s is t with some elements left out, the others in their order in t *)
RECURSIVE IsSubsequence(_, _)
IsSubsequence(s, t) ==
    IF s = <<>> THEN TRUE
    ELSE IF t = <<>> THEN FALSE
    ELSE IF Head(s) = Head(t) THEN IsSubsequence(Tail(s), Tail(t))
    ELSE IsSubsequence(s, Tail(t))

(* C27: in every reachable state the comments of each video are in insertion
   order, which is strictly increasing comment id; no comment id occurs twice
   on one video or on two different videos; likeComment and removeComment
   never reorder the list. *)
C27_CommentOrder ==
    /\ [](\A id \in DOMAIN video :
             \A i, j \in DOMAIN video[id].comments :
                 i < j => video[id].comments[i].id < video[id].comments[j].id)
    /\ [](\A a, b \in DOMAIN video :
             a # b => CommentIdsOf(video[a]) \cap CommentIdsOf(video[b]) = {})
    /\ [][last'.op \in {"User::likeComment", "Video::removeComment"} =>
             \A id \in DOMAIN video :
                 IsSubsequence(IdsInOrder(video'[id].comments), IdsInOrder(video[id].comments))]_vars

(* the second of two comments on a video was liked and is still second *)
C27_Witness ==
    /\ last.op = "User::likeComment"
    /\ last.status = SUCCESS
    /\ LET cs == video[last.args[2]].comments
       IN  /\ Len(cs) = 2
           /\ cs[2].id = last.args[3]
           /\ cs[2].likes = 1
           /\ cs[1].id < cs[2].id

----------------------------------------------------------------------------
(* Claims about subscriptions under the menu (SpecRegistry, SpecSub)        *)

(* C28: under the menu commands the two sides of a subscription agree: in
   every reachable state the username of user u is in the subscribers of
   channel c if and only if the name of c is in the subscriptions of u. *)
C28_SubscriptionSidesAgree ==
    \A u \in DOMAIN user, c \in DOMAIN chan :
        (user[u].username \in chan[c].subscribers) <=> (chan[c].name \in user[u].subscriptions)

(* command 6 has just subscribed the logged-in user to a channel, which is
   not the only subscription in the system *)
C28_Witness ==
    /\ last.op = "cmd6"
    /\ last.status = SUCCESS
    /\ current # NoUser
    /\ user[current].username \in chan[last.args[1]].subscribers
    /\ \E u \in DOMAIN user, c \in DOMAIN chan :
          /\ <<u, c>> # <<current, last.args[1]>>
          /\ user[u].username \in chan[c].subscribers
    /\ \E u \in DOMAIN user, c \in DOMAIN chan : user[u].username \notin chan[c].subscribers

(* user u subscribed to channel c through User::subscribeChannel, and
   Channel::unsubscribe has since removed u from the channel: only
   subscribeChannel puts a name in the subscriptions of a user, and it puts
   the user in the subscribers of the channel in the same call *)
RemovedAfterSubscribing(u, c) ==
    /\ chan[c].name \in user[u].subscriptions
    /\ user[u].username \notin chan[c].subscribers

(* C29 as stated: after Channel::unsubscribe removed u from a channel to
   which u subscribed through User::subscribeChannel, the next
   User::subscribeChannel of u on that channel returns SUCCESS and puts u
   back in the subscribers of the channel. *)
C29_Original ==
    [][(/\ last'.op = "User::subscribeChannel"
        /\ RemovedAfterSubscribing(last'.args[1], last'.args[2])) =>
           /\ last'.status = SUCCESS
           /\ user[last'.args[1]].username \in chan'[last'.args[2]].subscribers]_vars

(* C29, amended: after Channel::unsubscribe removed u from a channel to
   which u subscribed through User::subscribeChannel, the next
   User::subscribeChannel of u on that channel returns ALREADY_EXISTS,
   "Already subscribed", and changes neither the subscribers of the channel,
   which stay without u, nor the subscriptions of u, which keep the name. *)
C29_Resubscribe ==
    [][(/\ last'.op = "User::subscribeChannel"
        /\ RemovedAfterSubscribing(last'.args[1], last'.args[2])) =>
           /\ last'.status = ALREADY_EXISTS
           /\ last'.message = <<"Already subscribed">>
           /\ UNCHANGED <<chan, user>>
           /\ user[last'.args[1]].username \notin chan'[last'.args[2]].subscribers
           /\ chan[last'.args[2]].name \in user'[last'.args[1]].subscriptions]_vars

(* u subscribed through subscribeChannel, was removed by
   Channel::unsubscribe, and has just called subscribeChannel again *)
C29_Witness ==
    /\ last.op = "User::subscribeChannel"
    /\ last.status = ALREADY_EXISTS
    /\ RemovedAfterSubscribing(last.args[1], last.args[2])

----------------------------------------------------------------------------
(* Claims about the video registry of main() (SpecMain)                     *)

(* the ids of the videos some channel holds in its uploads *)
OwnedVideoIds == UNION {{chan[c].uploads[i] : i \in DOMAIN chan[c].uploads} : c \in DOMAIN chan}

(* C30: in every state reachable through the menu the registry of videos and
   the channels agree: the keys of the registry are exactly the ids of the
   videos held in the uploads of some channel, each key maps to the video of
   that id, and no entry refers to a video that no channel owns. *)
C30_RegistryAgreesWithChannels ==
    /\ DOMAIN videos = OwnedVideoIds
    /\ \A k \in DOMAIN videos :
          /\ videos[k] \in DOMAIN video
          /\ video[videos[k]].id = k
          /\ videos[k] \in OwnedVideoIds
          /\ \E c \in DOMAIN chan :
                /\ video[videos[k]].uploader = chan[c].name
                /\ \E i \in DOMAIN chan[c].uploads : chan[c].uploads[i] = videos[k]

(* command 5 has added a video to a channel made with command 4, beside the
   three videos of the default channels *)
C30_Witness ==
    /\ last.op = "cmd5"
    /\ last.id \in DOMAIN videos
    /\ last.id > DefaultVideos
    /\ \E c \in DOMAIN chan \ {"KavyaTech", "IndieMusic"} :
          \E i \in DOMAIN chan[c].uploads : chan[c].uploads[i] = last.id

----------------------------------------------------------------------------
(* Claims about the variants of the program (SpecVariants)                  *)

(* C24: the shared-ownership variant and the exclusive-ownership variant
   implement the same model: after every command of a sequence of menu
   commands run on both from their initial states, the two have the same
   videos, and every video has the same id, the same views and the same
   playing flag in both. *)
C24_VariantsAgree ==
    /\ DOMAIN shared.video = DOMAIN video
    /\ \A id \in DOMAIN video \cap DOMAIN shared.video :
          /\ shared.video[id].id = video[id].id
          /\ shared.video[id].views = video[id].views
          /\ shared.video[id].playing = video[id].playing

----------------------------------------------------------------------------
(* Claims about totality (SpecTotal)                                        *)

(* the statuses the core operations construct *)
CoreStatuses == {SUCCESS, NOT_FOUND, ALREADY_EXISTS, PERMISSION_DENIED, INVALID_INPUT}

(* the core operations that return an OpResult, and those that do not *)
StatusOps ==
    {"Video::play", "Video::pause", "Video::addComment", "Video::likeComment",
     "Video::removeComment", "Channel::subscribe", "Channel::unsubscribe", "User::watch",
     "User::createPlaylist", "User::subscribeChannel"}

OtherOps == {"Channel::upload", "User::getPlaylist", "Playlist::add"}

(* in this state every core operation can be invoked on every object there
   is, with every argument value, and it completes in one step; the
   antecedents are the bounds of the model, which the code does not have *)
Invocable ==
    /\ \A c \in DOMAIN chan, t \in Titles, d \in Durations :
          counter < MaxId => ENABLED ChannelUpload(c, t, d)
    /\ \A c \in DOMAIN chan, u \in Usernames :
          ENABLED ChannelSubscribe(c, u) /\ ENABLED ChannelUnsubscribe(c, u)
    /\ \A id \in DOMAIN video :
          /\ (video[id].playing \/ video[id].views < MaxViews) => ENABLED VideoPlay(id)
          /\ ENABLED VideoPause(id)
          /\ \A a \in Usernames, t \in Texts : counter < MaxId => ENABLED VideoAddComment(id, a, t)
          /\ \A cid \in CommentIds :
                /\ (\A i \in DOMAIN video[id].comments :
                        video[id].comments[i].id = cid => video[id].comments[i].likes < MaxLikes)
                      => ENABLED VideoLikeComment(id, cid)
                /\ \A r \in Usernames, o \in Usernames : ENABLED VideoRemoveComment(id, cid, r, o)
    /\ \A u \in DOMAIN user :
          /\ ENABLED UserWatch(u, NullVideo)
          /\ \A id \in DOMAIN video :
                (/\ Len(user[u].historyIds) < MaxHist
                 /\ video[id].playing \/ video[id].views < MaxViews) => ENABLED UserWatch(u, id)
          /\ \A c \in DOMAIN chan : ENABLED UserSubscribeChannel(u, c)
          /\ \A pname \in PlaylistNames :
                /\ ENABLED UserCreatePlaylist(u, pname)
                /\ ENABLED UserGetPlaylist(u, pname)
                /\ \A videoId \in PlaylistVideoIds :
                      (/\ pname \in DOMAIN user[u].playlists
                       /\ Cardinality(PlaylistEntries) < MaxAdds) => ENABLED PlaylistAdd(u, pname, videoId)

(* C25 as stated: every core operation (play, pause, addComment, likeComment,
   removeComment, upload, subscribe, unsubscribe, watch, createPlaylist,
   getPlaylist, subscribeChannel, Playlist::add) is total: in every
   reachable state and for every argument value it completes in one step
   and returns a status from SUCCESS, NOT_FOUND, ALREADY_EXISTS,
   PERMISSION_DENIED, INVALID_INPUT; in no state does an operation block or
   can it not be invoked. *)
C25_Original ==
    /\ []Invocable
    /\ [][last'.op \in StatusOps \cup OtherOps => last'.status \in CoreStatuses]_vars

(* C25, amended: every core operation is total: in every reachable state and
   for every argument value it completes in one step; play, pause,
   addComment, likeComment, removeComment, subscribe, unsubscribe, watch,
   createPlaylist and subscribeChannel return a status from SUCCESS,
   NOT_FOUND, ALREADY_EXISTS, PERMISSION_DENIED, INVALID_INPUT; upload
   returns the new video, getPlaylist the playlist of that name or no
   playlist, Playlist::add nothing, none of them a status; in no state does
   an operation block or can it not be invoked. *)
C25_Total ==
    /\ []Invocable
    /\ [][last'.op \in StatusOps => last'.status \in CoreStatuses]_vars
    /\ [][last'.op \in OtherOps => last'.status = NO_RESULT]_vars
    /\ [][last'.op = "Channel::upload" => last'.id \in DOMAIN video' \ DOMAIN video]_vars
    /\ [][last'.op = "User::getPlaylist" =>
             last'.message = IF last'.args[2] \in DOMAIN user[last'.args[1]].playlists
                             THEN <<last'.args[1], last'.args[2]>>
                             ELSE NullPlaylist]_vars
    /\ [][last'.op = "Playlist::add" => last'.message = <<>>]_vars

(* pause() was just rejected on the video, which has a view, a comment and a
   place in alice's history and in her playlist P, with alice subscribed; no
   operation is blocked here *)
C25_Witness ==
    /\ last.op = "Video::pause"
    /\ last.status = INVALID_INPUT
    /\ video[last.args[1]].views = 1
    /\ video[last.args[1]].comments # <<>>
    /\ user["alice"].historyIds # <<>>
    /\ "P" \in DOMAIN user["alice"].playlists
    /\ user["alice"].playlists["P"].videoIds # <<>>
    /\ "alice" \in chan["C"].subscribers
    /\ Invocable

----------------------------------------------------------------------------
(* Claims about the ids users hold (SpecPlayback)                           *)

(* the ids in the playlists of user u, and those in the watch history of u *)
PlaylistIdsOf(u) ==
    UNION {{user[u].playlists[n].videoIds[i] : i \in DOMAIN user[u].playlists[n].videoIds} :
              n \in DOMAIN user[u].playlists}

HistoryIdsOf(u) == {user[u].historyIds[i] : i \in DOMAIN user[u].historyIds}

(* C31: in every state reachable through the menu every id in a playlist of
   a user and every id in the watch history of a user is a key of the
   registry of videos, so showing and playing a playlist never meets an id
   that does not resolve. *)
C31_HeldIdsResolve ==
    \A u \in DOMAIN user :
        /\ PlaylistIdsOf(u) \subseteq DOMAIN videos
        /\ HistoryIdsOf(u) \subseteq DOMAIN videos
        /\ \A n \in DOMAIN user[u].playlists :
              Len(Show(user[u].playlists[n], videos)) =
                  1 + (IF user[u].playlists[n].videoIds = <<>>
                       THEN 1 ELSE Len(user[u].playlists[n].videoIds))

(* a user holds two videos in a playlist and one in the history, after an id
   that is no key of the registry was refused *)
C31_Witness ==
    /\ last.op = "cmd13"
    /\ last.message = <<"Video not found">>
    /\ \E u \in DOMAIN user :
          /\ Cardinality(PlaylistIdsOf(u)) = 2
          /\ HistoryIdsOf(u) # {}

(* how many times id occurs in the list ids *)
Occurrences(ids, id) == Cardinality({i \in DOMAIN ids : ids[i] = id})

(* C32: playing a playlist (command 14) applies play() then pause() to each
   entry in order: afterwards every video listed is Paused, and its views
   have grown by the number of times its id occurs in the playlist, less
   one if the video was Playing when the playback began; the videos not in
   the playlist are unchanged and no watch history changes. *)
C32_PlayPlaylist ==
    [][(/\ last'.op = "cmd14"
        /\ current # NoUser
        /\ last'.args[1] \in DOMAIN user[current].playlists) =>
           LET ids == user[current].playlists[last'.args[1]].videoIds
           IN  /\ \A id \in DOMAIN video :
                     IF Occurrences(ids, id) > 0
                     THEN /\ ~video'[id].playing
                          /\ video'[id].views = video[id].views + Occurrences(ids, id)
                                                   - (IF video[id].playing THEN 1 ELSE 0)
                          /\ video'[id].comments = video[id].comments
                     ELSE video'[id] = video[id]
               /\ DOMAIN video' = DOMAIN video
               /\ user' = user]_vars

(* a playlist that lists video 1 twice was played while video 1 was Playing
   with one view and video 2, not listed, was Playing too *)
C32_Witness ==
    /\ last.op = "cmd14"
    /\ current # NoUser
    /\ "P" \in DOMAIN user[current].playlists
    /\ user[current].playlists["P"].videoIds = <<1, 1>>
    /\ video[1].views = 2
    /\ ~video[1].playing
    /\ video[1].okPlays = 2
    /\ video[2].playing

(* C33: the playing flag belongs to the video, not to the viewer, and the
   menu has no pause command: once a user, or nobody logged in, has watched
   a video it is Playing, and every later watch of it, by whoever, is
   rejected as already playing and adds no view, until a playlist that
   lists the video is played; playing a playlist is the only command that
   takes a video from Playing to Paused. *)
C33_PlayingUntilPlaylist ==
    /\ [][(last'.op = "cmd7" /\ last'.args[1] \in DOMAIN videos) =>
              LET id == videos[last'.args[1]]
              IN  /\ video'[id].playing
                  /\ video[id].playing =>
                        /\ last'.status = ALREADY_EXISTS
                        /\ last'.message = <<"Already playing", video[id].title>>
                        /\ video'[id].views = video[id].views]_vars
    /\ [][\A id \in DOMAIN video :
              (video[id].playing /\ ~video'[id].playing) =>
                  /\ last'.op = "cmd14"
                  /\ current # NoUser
                  /\ last'.args[1] \in DOMAIN user[current].playlists
                  /\ Occurrences(user[current].playlists[last'.args[1]].videoIds, id) > 0]_vars

(* alice watched video 1, logged out, and the watch by nobody logged in was
   rejected: one view, one entry in her history *)
C33_Witness ==
    /\ last.op = "cmd7"
    /\ last.status = ALREADY_EXISTS
    /\ current = NoUser
    /\ video[last.args[1]].playing
    /\ video[last.args[1]].views = 1
    /\ "alice" \in DOMAIN user
    /\ user["alice"].historyIds = <<last.args[1]>>

----------------------------------------------------------------------------
(* Claims about the session (SpecMain)                                      *)

(* C34: login with a registered name makes that user the current user;
   login with a name that is not registered leaves the current user as it
   was, so a user who was logged in stays logged in; register never changes
   the current user; logout clears it; in every reachable state the current
   user is none or a registered user. *)
C34_Session ==
    /\ [](current = NoUser \/ current \in DOMAIN user)
    /\ [][last'.op = "cmd2" =>
             current' = IF last'.args[1] \in DOMAIN user THEN last'.args[1] ELSE current]_vars
    /\ [][last'.op = "cmd2" /\ last'.args[1] \in DOMAIN user =>
             user[current'].username = last'.args[1]]_vars
    /\ [][last'.op = "cmd1" => current' = current]_vars
    /\ [][last'.op = "cmd3" => current' = NoUser]_vars

(* alice is logged in and stays so after a login with the name of bob, who
   is not registered *)
C34_Witness ==
    /\ last.op = "cmd2"
    /\ last.args = <<"bob">>
    /\ last.message = <<"No such user. Register first.">>
    /\ current = "alice"
    /\ "bob" \notin DOMAIN user

----------------------------------------------------------------------------
(* Claims about uploading through the menu (SpecOwner)                      *)

(* command 5 may upload: somebody is logged in, the channel named exists
   and its owner is the username of the user logged in *)
MayUpload(cname) ==
    /\ current # NoUser
    /\ cname \in DOMAIN chan
    /\ chan[cname].owner = user[current].username

(* C35: command 5 creates a video only when the channel named exists and its
   owner is the username of the user logged in; when the channel is missing
   or owned by somebody else no video is created, no id is minted and the
   registry is unchanged.  The default channels are owned by "system", so a
   registered user uploads to them only if the name of that user is
   "system". *)
C35_UploadOwnership ==
    /\ [][(last'.op = "cmd5" /\ current # NoUser) =>
              IF MayUpload(last'.args[1])
              THEN /\ DOMAIN video' = DOMAIN video \cup {last'.id}
                   /\ last'.id \notin DOMAIN video
                   /\ video'[last'.id].uploader = last'.args[1]
              ELSE UNCHANGED <<video, counter, minted, videos, chan>>]_vars
    /\ [][video' # video => (last'.op = "cmd5" /\ MayUpload(last'.args[1]))]_vars
    /\ [](\A c \in {"KavyaTech", "IndieMusic"} : chan[c].owner = "system")
    /\ [][(last'.op = "cmd5" /\ video' # video /\ last'.args[1] \in {"KavyaTech", "IndieMusic"}) =>
              user[current].username = "system"]_vars

(* the user named system uploaded a fourth video to KavyaTech, with alice
   registered too *)
C35_Witness ==
    /\ last.op = "cmd5"
    /\ current = "system"
    /\ last.id = 4
    /\ 4 \in DOMAIN video
    /\ last.args[1] = "KavyaTech"
    /\ "alice" \in DOMAIN user
    /\ video[4].uploader = "KavyaTech"
    /\ chan["KavyaTech"].uploads = <<1, 2, 4>>


(* C36: the command loop terminates for every finite cin: a step of the loop
   that reads command 99 ends it, and so does a step taken at the prompt
   when cin is exhausted (the loop does not go on reading an ended cin). *)
C36_LoopTerminates ==
    [][ (loop.pc = "prompt"
         /\ (loop.input = <<>> \/ (NextLine(loop) \in DOMAIN Stoi /\ Stoi[NextLine(loop)] = 99)))
        => loop'.pc = "done" ]_vars


(* C37: the benchmark command (18) changes entity state in one way only: it
   appends 100 comments by "benchuser" to one registered video, minting 100
   ids; every other field of that video (views, playing), its earlier
   comments with their likes, every other video, the channels with their
   subscribers, the users with their subscriptions, playlists and history,
   the registry and the login stay as they were; and performance logging
   is disabled afterwards, whatever it was before. *)
C37_BenchmarkFrame ==
    [][ last'.op = "cmd18" =>
        /\ \E id \in DOMAIN videos :
              LET old == video[videos[id]].comments
                  new == video'[videos[id]].comments
              IN  /\ Len(new) = Len(old) + 100
                  /\ \A i \in 1..Len(old) : new[i] = old[i]
                  /\ \A i \in (Len(old) + 1)..Len(new) :
                        /\ new[i].author = "benchuser"
                        /\ new[i].likes = 0
                        /\ new[i].id = minted'[Len(minted) + i - Len(old)].id
                  /\ video' = [video EXCEPT ![videos[id]] = [@ EXCEPT !.comments = new]]
        /\ Len(minted') = Len(minted) + 100
        /\ \A i \in 1..Len(minted) : minted'[i] = minted[i]
        /\ \A i \in (Len(minted) + 1)..Len(minted') :
              /\ minted'[i].kind = "Comment"
              /\ \A j \in 1..Len(minted') : minted'[j].id = minted'[i].id => j = i
        /\ UNCHANGED <<chan, user, videos, current>>
        /\ perf' = FALSE ]_vars

(* the benchmark has run with performance logging enabled, on a video that
   was watched and is playing and had a liked comment, with alice
   subscribed and holding a playlist and a history *)
C37_Witness ==
    /\ last.op = "cmd18"
    /\ last.args = <<TRUE>>
    /\ perf = FALSE
    /\ "alice" \in DOMAIN user
    /\ user["alice"].subscriptions # {}
    /\ user["alice"].historyIds # <<>>
    /\ "P" \in DOMAIN user["alice"].playlists
    /\ video[1].views = 1
    /\ video[1].playing
    /\ Len(video[1].comments) = 101
    /\ video[1].comments[1].likes = 1
    /\ video[1].comments[101].author = "benchuser"

====
